---- MODULE Spec2Model ----
(***************************************************************************)
(* A model of the cint interpreter (github.com/misterunix/cint): the       *)
(* token classification of the lexer, the recursive-descent / precedence-  *)
(* climbing parser, the tree-walking evaluator with its environments and   *)
(* control-flow flags, and the embedding operations New, Run, Step, Reset, *)
(* EnableSingleStep and DisableSingleStep.                                 *)
(*                                                                         *)
(* A source text is a sequence of lexemes (the lexer's longest-match       *)
(* splitting is taken as given; NextToken classifies one lexeme).  Go      *)
(* pointers (to Value, to Environment) are addresses into the sequences    *)
(* heap and envs, so that two bindings holding the same *Value share it.   *)
(* A Go run-time panic (nil dereference, integer division by zero) is the  *)
(* outcome "panic", which ends the host process.                           *)
(***************************************************************************)
EXTENDS Integers, Sequences, FiniteSets, TLC

(***************************************************************************)
(* Bounds of the explored inputs.                                          *)
(***************************************************************************)
\* integer literals that occur in source texts are 0..MaxLit
MaxLit == 12
\* factorial(n) is explored for n in 0..MaxFact, fibonacci(n) for 0..MaxFib
MaxFact == 6
MaxFib == 7
\* the evaluator makes at most 4^MaxExec transfers of control in one call of
\* Run or Step
MaxExec == 6
\* the Step calls in step mode since New or Reset are counted up to MaxSteps
MaxSteps == 7
\* the longest of the short token sequences given to the parser
MaxTokens == 3

(***************************************************************************)
(* token.go / lexer.go: token types and classification of one lexeme.      *)
(***************************************************************************)
keywords ==
  ("auto" :> "AUTO") @@ ("break" :> "BREAK") @@ ("case" :> "CASE") @@
  ("char" :> "CHAR_KW") @@ ("const" :> "CONST") @@ ("continue" :> "CONTINUE") @@
  ("default" :> "DEFAULT") @@ ("do" :> "DO") @@ ("double" :> "DOUBLE") @@
  ("else" :> "ELSE") @@ ("enum" :> "ENUM") @@ ("extern" :> "EXTERN") @@
  ("float" :> "FLOAT_KW") @@ ("for" :> "FOR") @@ ("goto" :> "GOTO") @@
  ("if" :> "IF") @@ ("int" :> "INT_KW") @@ ("long" :> "LONG") @@
  ("register" :> "REGISTER") @@ ("return" :> "RETURN") @@ ("short" :> "SHORT") @@
  ("signed" :> "SIGNED") @@ ("sizeof" :> "SIZEOF") @@ ("static" :> "STATIC") @@
  ("struct" :> "STRUCT") @@ ("switch" :> "SWITCH") @@ ("typedef" :> "TYPEDEF") @@
  ("union" :> "UNION") @@ ("unsigned" :> "UNSIGNED") @@ ("void" :> "VOID") @@
  ("volatile" :> "VOLATILE") @@ ("while" :> "WHILE")

\* the operator and delimiter lexemes NextToken recognises
symbols ==
  ("=" :> "ASSIGN") @@ ("==" :> "EQ") @@ ("+" :> "PLUS") @@ ("++" :> "INC") @@
  ("+=" :> "PLUSEQ") @@ ("-" :> "MINUS") @@ ("--" :> "DEC") @@
  ("-=" :> "MINUSEQ") @@ ("->" :> "ARROW") @@ ("*" :> "STAR") @@
  ("*=" :> "STAREQ") @@ ("/" :> "SLASH") @@ ("/=" :> "SLASHEQ") @@
  ("%" :> "PERCENT") @@ ("%=" :> "PERCENTEQ") @@ ("!" :> "NOT") @@
  ("!=" :> "NEQ") @@ ("<" :> "LT") @@ ("<=" :> "LTE") @@ ("<<" :> "LSHIFT") @@
  ("<<=" :> "LSHIFTEQ") @@ (">" :> "GT") @@ (">=" :> "GTE") @@
  (">>" :> "RSHIFT") @@ (">>=" :> "RSHIFTEQ") @@ ("&" :> "BITAND") @@
  ("&&" :> "AND") @@ ("&=" :> "ANDEQ") @@ ("|" :> "BITOR") @@ ("||" :> "OR") @@
  ("|=" :> "OREQ") @@ ("^" :> "BITXOR") @@ ("^=" :> "XOREQ") @@
  ("~" :> "BITNOT") @@ ("(" :> "LPAREN") @@ (")" :> "RPAREN") @@
  ("{" :> "LBRACE") @@ ("}" :> "RBRACE") @@ ("[" :> "LBRACKET") @@
  ("]" :> "RBRACKET") @@ (";" :> "SEMICOLON") @@ ("," :> "COMMA") @@
  ("." :> "DOT") @@ ("?" :> "QUESTION") @@ (":" :> "COLON")

\* decimal numerals of the explored literals: numerals[n + 1] is the text of n
numerals == [k \in 1..(MaxLit + 1) |-> ToString(k - 1)]

isDigit(lexeme) == \E k \in DOMAIN numerals : numerals[k] = lexeme

\* string-literal lexemes of the explored sources and the text between the
\* quotes as readString returns it (escape sequences are left in place)
stringLexemes ==
  ("\"%d\"" :> "%d") @@ ("\"%d\\n\"" :> "%d\\n")

LookupIdent(ident) ==
  IF ident \in DOMAIN keywords THEN keywords[ident] ELSE "IDENT"

EOFToken == [Type |-> "EOF", Literal |-> ""]

\* Lexer.NextToken on the lexeme at position pos of input (EOF past the end)
NextToken(input, pos) ==
  CASE pos > Len(input) -> EOFToken
    [] input[pos] \in DOMAIN symbols ->
         [Type |-> symbols[input[pos]], Literal |-> input[pos]]
    [] input[pos] \in DOMAIN stringLexemes ->
         [Type |-> "STRING", Literal |-> stringLexemes[input[pos]]]
    [] isDigit(input[pos]) -> [Type |-> "INT", Literal |-> input[pos]]
    [] OTHER -> [Type |-> LookupIdent(input[pos]), Literal |-> input[pos]]

\* NewLexer: the token stream successive NextToken calls yield on input, up
\* to the first two EOF tokens (every later call yields EOF again)
NewLexer(input) == [i \in 1..(Len(input) + 2) |-> NextToken(input, i)]

\* strconv.ParseInt(literal, 10, 64) on the explored numerals
ParseInt(literal) ==
  CASE isDigit(literal) ->
         (CHOOSE k \in DOMAIN numerals : numerals[k] = literal) - 1
    [] OTHER -> 0

(***************************************************************************)
(* ast.go: nodes.  A nil interface value is Nil; a nil pointer of node     *)
(* type t (which is a non-nil value once stored in an interface) is        *)
(* NilPtr(t).                                                              *)
(***************************************************************************)
Nil == [kind |-> "nil"]
NilPtr(t) == [kind |-> "nilptr", type |-> t]

(***************************************************************************)
(* parser.go: the parser.  l is the token stream of the parser's lexer;    *)
(* the parser state p is the position of curToken in it (peekToken is the  *)
(* next one) and the diagnostics.  Once curToken is EOF, curToken and      *)
(* peekToken stay EOF, so the position stops there.                        *)
(***************************************************************************)
\* the Go call stack of the parser is kept explicitly: frames holds, for each
\* active parse function that is waiting for a callee, the function, the call
\* site it waits at and its local variables; ctl is the pending transfer of
\* control: the call of op with argument arg, the return of val to the top
\* frame, or "exit" once ParseProgram has returned val
ParserFrame(fn, at, loc) == [fn |-> fn, at |-> at, loc |-> loc]
ParserCtl(op, arg, val) == [op |-> op, arg |-> arg, val |-> val]

NewParser ==
  [pos |-> 1, errors |-> <<>>, frames |-> <<>>,
   ctl |-> ParserCtl("exit", 0, Nil)]

curToken(l, p) == l[p.pos]
peekToken(l, p) == l[p.pos + 1]
nextToken(l, p) == [p EXCEPT !.pos = IF @ < Len(l) - 1 THEN @ + 1 ELSE @]
curTokenIs(l, p, t) == l[p.pos].Type = t
peekTokenIs(l, p, t) == l[p.pos + 1].Type = t

peekError(l, p, t) ==
  [p EXCEPT !.errors = Append(@, [expected |-> t,
                                  got |-> l[p.pos + 1].Type,
                                  literal |-> l[p.pos + 1].Literal])]

expectPeek(l, p, t) ==
  CASE l[p.pos + 1].Type = t -> [ok |-> TRUE, p |-> nextToken(l, p)]
    [] OTHER -> [ok |-> FALSE, p |-> peekError(l, p, t)]

isTypeKeyword(t) ==
  t \in {"INT_KW", "CHAR_KW", "FLOAT_KW", "DOUBLE", "VOID", "LONG", "SHORT",
         "UNSIGNED", "SIGNED"}

\* operator precedence levels
LOWEST == 1
ASSIGN_PREC == 2
CONDITIONAL == 3
LOGOR == 4
LOGAND == 5
BITOR_PREC == 6
BITXOR_PREC == 7
BITAND_PREC == 8
EQUALS == 9
LESSGREATER == 10
SHIFT == 11
SUM == 12
PRODUCT == 13
PREFIX == 14
POSTFIX == 15
CALL == 16
INDEX == 17

precedences ==
  ("ASSIGN" :> ASSIGN_PREC) @@ ("PLUSEQ" :> ASSIGN_PREC) @@
  ("MINUSEQ" :> ASSIGN_PREC) @@ ("STAREQ" :> ASSIGN_PREC) @@
  ("SLASHEQ" :> ASSIGN_PREC) @@ ("PERCENTEQ" :> ASSIGN_PREC) @@
  ("OR" :> LOGOR) @@ ("AND" :> LOGAND) @@ ("BITOR" :> BITOR_PREC) @@
  ("BITXOR" :> BITXOR_PREC) @@ ("BITAND" :> BITAND_PREC) @@
  ("EQ" :> EQUALS) @@ ("NEQ" :> EQUALS) @@ ("LT" :> LESSGREATER) @@
  ("GT" :> LESSGREATER) @@ ("LTE" :> LESSGREATER) @@ ("GTE" :> LESSGREATER) @@
  ("LSHIFT" :> SHIFT) @@ ("RSHIFT" :> SHIFT) @@ ("PLUS" :> SUM) @@
  ("MINUS" :> SUM) @@ ("SLASH" :> PRODUCT) @@ ("STAR" :> PRODUCT) @@
  ("PERCENT" :> PRODUCT) @@ ("INC" :> POSTFIX) @@ ("DEC" :> POSTFIX) @@
  ("LPAREN" :> CALL) @@ ("LBRACKET" :> INDEX) @@ ("QUESTION" :> CONDITIONAL)

peekPrecedence(l, p) ==
  CASE l[p.pos + 1].Type \in DOMAIN precedences ->
         precedences[l[p.pos + 1].Type]
    [] OTHER -> LOWEST

curPrecedence(l, p) ==
  CASE l[p.pos].Type \in DOMAIN precedences -> precedences[l[p.pos].Type]
    [] OTHER -> LOWEST

\* the token types the infix loop of parseExpression dispatches on
infixTokens ==
  {"PLUS", "MINUS", "STAR", "SLASH", "PERCENT", "EQ", "NEQ", "LT", "GT",
   "LTE", "GTE", "AND", "OR", "BITAND", "BITOR", "BITXOR", "LSHIFT", "RSHIFT"}
assignTokens ==
  {"ASSIGN", "PLUSEQ", "MINUSEQ", "STAREQ", "SLASHEQ", "PERCENTEQ"}
prefixTokens == {"MINUS", "NOT", "BITNOT", "INC", "DEC", "STAR", "BITAND"}

\* a parse function calls op(arg) from the call site recorded in frame
ParseCall(p, frame, op, arg) ==
  [p EXCEPT !.frames = Append(@, frame), !.ctl = ParserCtl(op, arg, Nil)]

\* a parse function returns val to its caller
ParseReturn(p, val) == [p EXCEPT !.ctl = ParserCtl("return", 0, val)]

\* Parser.parseType: the type keyword followed by any number of '*'
RECURSIVE parseTypeStars(_, _, _)
parseTypeStars(l, p, typ) ==
  CASE l[p.pos].Type = "STAR" -> parseTypeStars(l, nextToken(l, p), typ \o "*")
    [] OTHER -> [p |-> p, typ |-> typ]

parseType(l, p) == parseTypeStars(l, nextToken(l, p), l[p.pos].Literal)

\* Parser.parseFunctionDecl, the parameter loop
RECURSIVE parseParameters(_, _, _)
parseParameters(l, p, params) ==
  CASE ~isTypeKeyword(l[p.pos].Type) -> [p |-> p, params |-> params]
    [] OTHER ->
       LET ty == parseType(l, p)
           named == l[ty.p.pos].Type = "IDENT"
           paramName == IF named THEN l[ty.p.pos].Literal ELSE ""
           p2 == IF named THEN nextToken(l, ty.p) ELSE ty.p
           ps == Append(params, [Type |-> ty.typ, Name |-> paramName])
       IN CASE l[p2.pos].Type # "COMMA" -> [p |-> p2, params |-> ps]
            [] OTHER -> parseParameters(l, nextToken(l, p2), ps)

\* Parser.parsePrefixExpression, up to the call that parses the operand
parsePrefixExpression(l, p) ==
  ParseCall(nextToken(l, p),
            ParserFrame("parsePrefixExpression", "right",
                        [Operator |-> l[p.pos].Literal]),
            "parseExpression", PREFIX)

parsePrefixExpressionResume(l, p, f, r) ==
  ParseReturn(p, [kind |-> "PrefixExpression",
                  Operator |-> f.loc.Operator, Right |-> r.val])

\* an infix expression whose right operand binds one level looser
parseInfixExpressionLooser(l, p, left) ==
  ParseCall(nextToken(l, p),
            ParserFrame("parseInfixExpression", "right",
                        [Left |-> left, Operator |-> l[p.pos].Literal]),
            "parseExpression", curPrecedence(l, p) - 1)

\* Parser.parseInfixExpression, up to the call that parses the right operand
parseInfixExpression(l, p, left) ==
  ParseCall(nextToken(l, p),
            ParserFrame("parseInfixExpression", "right",
                        [Left |-> left, Operator |-> l[p.pos].Literal]),
            "parseExpression", curPrecedence(l, p))

parseInfixExpressionResume(l, p, f, r) ==
  ParseReturn(p, [kind |-> "InfixExpression", Left |-> f.loc.Left,
                  Operator |-> f.loc.Operator, Right |-> r.val])

\* Parser.parseAssignmentExpression
parseAssignmentExpression(l, p, left) ==
  ParseCall(nextToken(l, p),
            ParserFrame("parseAssignmentExpression", "right",
                        [Left |-> left, Operator |-> l[p.pos].Literal]),
            "parseExpression", ASSIGN_PREC)

parseAssignmentExpressionResume(l, p, f, r) ==
  ParseReturn(p, [kind |-> "AssignmentExpression", Left |-> f.loc.Left,
                  Operator |-> f.loc.Operator, Right |-> r.val])

\* Parser.parseExpressionList, up to the call that parses the first element
parseExpressionList(l, p, end) ==
  CASE l[p.pos + 1].Type = end -> ParseReturn(nextToken(l, p), <<>>)
    [] OTHER ->
         ParseCall(nextToken(l, p),
                   ParserFrame("parseExpressionList", "element",
                               [end |-> end, list |-> <<>>]),
                   "parseExpression", LOWEST)

\* Parser.parseExpressionList after an element: the loop over ", expression"
\* and the end token; the nil slice returned when the end token is missing
\* is the empty list
parseExpressionListResume(l, p, f, r) ==
  LET list == Append(f.loc.list, r.val)
      e == expectPeek(l, p, f.loc.end)
  IN CASE l[p.pos + 1].Type = "COMMA" ->
            ParseCall(nextToken(l, nextToken(l, p)),
                      ParserFrame("parseExpressionList", "element",
                                  [end |-> f.loc.end, list |-> list]),
                      "parseExpression", LOWEST)
       [] ~e.ok -> ParseReturn(e.p, <<>>)
       [] OTHER -> ParseReturn(e.p, list)

\* Parser.parseCallExpression
parseCallExpression(l, p, function) ==
  ParseCall(p, ParserFrame("parseCallExpression", "arguments",
                           [Function |-> function]),
            "parseExpressionList", "RPAREN")

parseCallExpressionResume(l, p, f, r) ==
  ParseReturn(p, [kind |-> "CallExpression", Function |-> f.loc.Function,
                  Arguments |-> r.val])

\* Parser.parseArrayExpression
parseArrayExpression(l, p, left) ==
  ParseCall(nextToken(l, p),
            ParserFrame("parseArrayExpression", "index", [Left |-> left]),
            "parseExpression", LOWEST)

parseArrayExpressionResume(l, p, f, r) ==
  LET e == expectPeek(l, p, "RBRACKET")
  IN CASE ~e.ok -> ParseReturn(e.p, Nil)
       [] OTHER -> ParseReturn(e.p, [kind |-> "ArrayExpression",
                                     Left |-> f.loc.Left, Index |-> r.val])

\* Parser.parseConditionalExpression
parseConditionalExpression(l, p, condition) ==
  ParseCall(nextToken(l, p),
            ParserFrame("parseConditionalExpression", "consequence",
                        [Condition |-> condition]),
            "parseExpression", LOWEST)

parseConditionalExpressionResume(l, p, f, r) ==
  LET e == expectPeek(l, p, "COLON")
  IN CASE f.at = "consequence" /\ ~e.ok -> ParseReturn(e.p, Nil)
       [] f.at = "consequence" ->
            ParseCall(nextToken(l, e.p),
                      ParserFrame("parseConditionalExpression", "alternative",
                                  [Condition |-> f.loc.Condition,
                                   Consequence |-> r.val]),
                      "parseExpression", CONDITIONAL)
       [] OTHER ->
            ParseReturn(p, [kind |-> "ConditionalExpression",
                            Condition |-> f.loc.Condition,
                            Consequence |-> f.loc.Consequence,
                            Alternative |-> r.val])

\* parseExpression is waiting for the function that parses the operator at
\* call site at ("prefix", "group" or "infix")
parseExpressionFrame(p, at, precedence) ==
  [p EXCEPT !.frames =
     Append(@, ParserFrame("parseExpression", at, [precedence |-> precedence]))]

\* Parser.parseExpression, the infix loop
RECURSIVE parseInfixLoop(_, _, _, _)
parseInfixLoop(l, p, precedence, leftExp) ==
  CASE l[p.pos + 1].Type = "SEMICOLON" -> ParseReturn(p, leftExp)
    [] ~(precedence < peekPrecedence(l, p)) -> ParseReturn(p, leftExp)
    [] l[p.pos + 1].Type \in infixTokens ->
         parseInfixExpression(
           l, parseExpressionFrame(nextToken(l, p), "infix", precedence),
           leftExp)
    [] l[p.pos + 1].Type \in assignTokens ->
         parseAssignmentExpression(
           l, parseExpressionFrame(nextToken(l, p), "infix", precedence),
           leftExp)
    [] l[p.pos + 1].Type \in {"INC", "DEC"} ->
         parseInfixLoop(l, nextToken(l, p), precedence,
                        [kind |-> "PostfixExpression", Left |-> leftExp,
                         Operator |-> l[p.pos + 1].Literal])
    [] l[p.pos + 1].Type = "LPAREN" ->
         parseCallExpression(
           l, parseExpressionFrame(nextToken(l, p), "infix", precedence),
           leftExp)
    [] l[p.pos + 1].Type = "LBRACKET" ->
         parseArrayExpression(
           l, parseExpressionFrame(nextToken(l, p), "infix", precedence),
           leftExp)
    [] l[p.pos + 1].Type = "QUESTION" ->
         parseConditionalExpression(
           l, parseExpressionFrame(nextToken(l, p), "infix", precedence),
           leftExp)
    [] OTHER -> ParseReturn(p, leftExp)

\* Parser.parseExpression, the prefix part
parseExpression(l, p, precedence) ==
  CASE l[p.pos].Type = "IDENT" ->
         parseInfixLoop(l, p, precedence,
                        [kind |-> "Identifier", Value |-> l[p.pos].Literal])
    [] l[p.pos].Type = "INT" ->
         parseInfixLoop(l, p, precedence,
                        [kind |-> "IntegerLiteral",
                         Value |-> ParseInt(l[p.pos].Literal)])
    [] l[p.pos].Type = "STRING" ->
         parseInfixLoop(l, p, precedence,
                        [kind |-> "StringLiteral", Value |-> l[p.pos].Literal])
    [] l[p.pos].Type \in prefixTokens ->
         parsePrefixExpression(l, parseExpressionFrame(p, "prefix", precedence))
    [] l[p.pos].Type = "LPAREN" ->
         ParseCall(nextToken(l, p),
                   ParserFrame("parseExpression", "group",
                               [precedence |-> precedence]),
                   "parseExpression", LOWEST)
    [] OTHER -> ParseReturn(p, Nil)

\* Parser.parseExpression after the operand or operator expression r.val
parseExpressionResume(l, p, f, r) ==
  LET e == expectPeek(l, p, "RPAREN")
  IN CASE f.at = "group" /\ ~e.ok -> ParseReturn(e.p, Nil)
       [] f.at = "group" -> parseInfixLoop(l, e.p, f.loc.precedence, r.val)
       [] OTHER -> parseInfixLoop(l, p, f.loc.precedence, r.val)

\* Parser.parseVarDecl after the initialiser: the closing semicolon
parseVarDeclEnd(l, p, typ, name, value) ==
  ParseReturn(CASE l[p.pos].Type = "SEMICOLON" -> p
                [] l[p.pos + 1].Type = "SEMICOLON" -> nextToken(l, p)
                [] OTHER -> p,
              [kind |-> "VarDecl", Type |-> typ, Name |-> name,
               Value |-> value])

\* Parser.parseVarDecl
parseVarDecl(l, p, typ, name) ==
  LET isArr == l[p.pos].Type = "LBRACKET"
      a == nextToken(l, p)
      p1 == CASE isArr /\ l[a.pos].Type # "RBRACKET" ->
                   nextToken(l, nextToken(l, a))
              [] isArr -> nextToken(l, a)
              [] OTHER -> p
      typ1 == IF isArr THEN typ \o "[]" ELSE typ
  IN CASE l[p1.pos].Type = "ASSIGN" ->
            ParseCall(nextToken(l, p1),
                      ParserFrame("parseVarDecl", "value",
                                  [Type |-> typ1, Name |-> name]),
                      "parseExpression", LOWEST)
       [] OTHER -> parseVarDeclEnd(l, p1, typ1, name, Nil)

parseVarDeclResume(l, p, f, r) ==
  parseVarDeclEnd(l, p, f.loc.Type, f.loc.Name, r.val)

\* Parser.parseFunctionDecl
parseFunctionDecl(l, p, returnType, name) ==
  LET e == expectPeek(l, p, "LPAREN")
      p1 == nextToken(l, e.p)
      ps == IF l[p1.pos].Type # "RPAREN"
              THEN parseParameters(l, p1, <<>>)
              ELSE [p |-> p1, params |-> <<>>]
      p2 == nextToken(l, ps.p)
      fn == [kind |-> "FunctionDecl", ReturnType |-> returnType,
             Name |-> name, Parameters |-> ps.params,
             Body |-> NilPtr("BlockStatement")]
  IN CASE ~e.ok -> ParseReturn(e.p, NilPtr("FunctionDecl"))
       [] l[ps.p.pos].Type # "RPAREN" ->
            ParseReturn(peekError(l, ps.p, "RPAREN"), NilPtr("FunctionDecl"))
       [] l[p2.pos].Type = "LBRACE" ->
            ParseCall(p2, ParserFrame("parseFunctionDecl", "body", fn),
                      "parseBlockStatement", 0)
       [] OTHER -> ParseReturn(p2, fn)

parseFunctionDeclResume(l, p, f, r) ==
  ParseReturn(p, [f.loc EXCEPT !.Body = r.val])

\* Parser.parseDeclaration
parseDeclaration(l, p) ==
  LET ty == parseType(l, p) IN
  CASE l[ty.p.pos].Type # "IDENT" -> ParseReturn(ty.p, Nil)
    [] l[ty.p.pos + 1].Type = "LPAREN" ->
         parseFunctionDecl(l, ty.p, ty.typ, l[ty.p.pos].Literal)
    [] OTHER ->
         parseVarDecl(l, nextToken(l, ty.p), ty.typ, l[ty.p.pos].Literal)

\* Parser.parseBlockStatement, the loop: the statements up to '}' or the end
\* of input
parseBlockLoop(l, p, stmts) ==
  CASE l[p.pos].Type \in {"RBRACE", "EOF"} ->
         ParseReturn(p, [kind |-> "BlockStatement", Statements |-> stmts])
    [] OTHER ->
         ParseCall(p, ParserFrame("parseBlockStatement", "statement", stmts),
                   "parseStatement", 0)

parseBlockStatement(l, p) == parseBlockLoop(l, nextToken(l, p), <<>>)

\* a block loop that goes on without taking the next token
parseBlockStatementResumeInPlace(l, p, f, r) ==
  parseBlockLoop(l, p, IF r.val # Nil THEN Append(f.loc, r.val) ELSE f.loc)

parseBlockStatementResume(l, p, f, r) ==
  parseBlockLoop(l, nextToken(l, p),
                 IF r.val # Nil THEN Append(f.loc, r.val) ELSE f.loc)

\* Parser.parseReturnStatement after the value: the closing semicolon
parseReturnStatementEnd(l, p, value) ==
  ParseReturn(CASE l[p.pos].Type = "SEMICOLON" -> p
                [] l[p.pos + 1].Type = "SEMICOLON" -> nextToken(l, p)
                [] OTHER -> p,
              [kind |-> "ReturnStatement", ReturnValue |-> value])

\* Parser.parseReturnStatement
parseReturnStatement(l, p) ==
  LET p1 == nextToken(l, p)
  IN CASE l[p1.pos].Type # "SEMICOLON" ->
            ParseCall(p1, ParserFrame("parseReturnStatement", "value", 0),
                      "parseExpression", LOWEST)
       [] OTHER -> parseReturnStatementEnd(l, p1, Nil)

parseReturnStatementResume(l, p, f, r) == parseReturnStatementEnd(l, p, r.val)

\* Parser.parseIfStatement
parseIfStatement(l, p) ==
  LET e1 == expectPeek(l, p, "LPAREN")
  IN CASE ~e1.ok -> ParseReturn(e1.p, NilPtr("IfStatement"))
       [] OTHER ->
            ParseCall(nextToken(l, e1.p),
                      ParserFrame("parseIfStatement", "condition", 0),
                      "parseExpression", LOWEST)

parseIfStatementResume(l, p, f, r) ==
  LET e2 == expectPeek(l, p, "RPAREN")
      e3 == expectPeek(l, e2.p, "LBRACE")
      q == nextToken(l, p)
      stmt == [kind |-> "IfStatement", Condition |-> f.loc.Condition,
               Consequence |-> r.val, Alternative |-> NilPtr("BlockStatement")]
  IN CASE f.at = "condition" /\ ~e2.ok ->
            ParseReturn(e2.p, NilPtr("IfStatement"))
       [] f.at = "condition" /\ ~e3.ok ->
            ParseReturn(e3.p, NilPtr("IfStatement"))
       [] f.at = "condition" ->
            ParseCall(e3.p, ParserFrame("parseIfStatement", "consequence",
                                        [Condition |-> r.val]),
                      "parseBlockStatement", 0)
       [] f.at = "consequence" /\ l[p.pos + 1].Type # "ELSE" ->
            ParseReturn(p, stmt)
       [] f.at = "consequence" /\ l[q.pos + 1].Type = "LBRACE" ->
            ParseCall(nextToken(l, q),
                      ParserFrame("parseIfStatement", "alternative", stmt),
                      "parseBlockStatement", 0)
       [] f.at = "consequence" -> ParseReturn(q, stmt)
       [] OTHER -> ParseReturn(p, [f.loc EXCEPT !.Alternative = r.val])

\* Parser.parseWhileStatement
parseWhileStatement(l, p) ==
  LET e1 == expectPeek(l, p, "LPAREN")
  IN CASE ~e1.ok -> ParseReturn(e1.p, NilPtr("WhileStatement"))
       [] OTHER ->
            ParseCall(nextToken(l, e1.p),
                      ParserFrame("parseWhileStatement", "condition", 0),
                      "parseExpression", LOWEST)

parseWhileStatementResume(l, p, f, r) ==
  LET e2 == expectPeek(l, p, "RPAREN")
      e3 == expectPeek(l, e2.p, "LBRACE")
  IN CASE f.at = "condition" /\ ~e2.ok ->
            ParseReturn(e2.p, NilPtr("WhileStatement"))
       [] f.at = "condition" /\ ~e3.ok ->
            ParseReturn(e3.p, NilPtr("WhileStatement"))
       [] f.at = "condition" ->
            ParseCall(e3.p, ParserFrame("parseWhileStatement", "body",
                                        [Condition |-> r.val]),
                      "parseBlockStatement", 0)
       [] OTHER ->
            ParseReturn(p, [kind |-> "WhileStatement",
                            Condition |-> f.loc.Condition, Body |-> r.val])

\* Parser.parseForStatement from the closing parenthesis on
parseForBody(l, p, init, cond, post) ==
  LET e3 == expectPeek(l, p, "RPAREN")
      e4 == expectPeek(l, e3.p, "LBRACE")
  IN CASE ~e3.ok -> ParseReturn(e3.p, NilPtr("ForStatement"))
       [] ~e4.ok -> ParseReturn(e4.p, NilPtr("ForStatement"))
       [] OTHER ->
            ParseCall(e4.p,
                      ParserFrame("parseForStatement", "body",
                                  [Init |-> init, Condition |-> cond,
                                   Post |-> post]),
                      "parseBlockStatement", 0)

\* Parser.parseForStatement from the semicolon after the condition on
parseForPost(l, p, init, cond) ==
  LET e2 == expectPeek(l, p, "SEMICOLON")
      p3 == nextToken(l, e2.p)
  IN CASE ~e2.ok -> ParseReturn(e2.p, NilPtr("ForStatement"))
       [] l[p3.pos].Type # "RPAREN" ->
            ParseCall(p3, ParserFrame("parseForStatement", "post",
                                      [Init |-> init, Condition |-> cond]),
                      "parseExpression", LOWEST)
       [] OTHER -> parseForBody(l, p3, init, cond, Nil)

\* Parser.parseForStatement from the semicolon after the initialisation on
parseForCondition(l, p, init) ==
  LET p2 == IF l[p.pos].Type = "SEMICOLON" THEN nextToken(l, p) ELSE p
  IN CASE l[p2.pos].Type # "SEMICOLON" ->
            ParseCall(p2, ParserFrame("parseForStatement", "condition",
                                      [Init |-> init]),
                      "parseExpression", LOWEST)
       [] OTHER -> parseForPost(l, p2, init, Nil)

\* Parser.parseForStatement
parseForStatement(l, p) ==
  LET e1 == expectPeek(l, p, "LPAREN")
      p1 == nextToken(l, e1.p)
  IN CASE ~e1.ok -> ParseReturn(e1.p, NilPtr("ForStatement"))
       [] l[p1.pos].Type # "SEMICOLON" ->
            ParseCall(p1, ParserFrame("parseForStatement", "init", 0),
                      "parseStatement", 0)
       [] OTHER -> parseForCondition(l, p1, Nil)

parseForStatementResume(l, p, f, r) ==
  CASE f.at = "init" -> parseForCondition(l, p, r.val)
    [] f.at = "condition" -> parseForPost(l, p, f.loc.Init, r.val)
    [] f.at = "post" ->
         parseForBody(l, p, f.loc.Init, f.loc.Condition, r.val)
    [] OTHER ->
         ParseReturn(p, [kind |-> "ForStatement", Init |-> f.loc.Init,
                         Condition |-> f.loc.Condition, Post |-> f.loc.Post,
                         Body |-> r.val])

\* Parser.parseBreakStatement
parseBreakStatement(l, p) ==
  ParseReturn(IF l[p.pos + 1].Type = "SEMICOLON" THEN nextToken(l, p) ELSE p,
              [kind |-> "BreakStatement"])

\* Parser.parseContinueStatement
parseContinueStatement(l, p) ==
  ParseReturn(IF l[p.pos + 1].Type = "SEMICOLON" THEN nextToken(l, p) ELSE p,
              [kind |-> "ContinueStatement"])

\* Parser.parseExpressionStatement
parseExpressionStatement(l, p) ==
  ParseCall(p, ParserFrame("parseExpressionStatement", "expression", 0),
            "parseExpression", LOWEST)

parseExpressionStatementResume(l, p, f, r) ==
  ParseReturn(IF l[p.pos + 1].Type = "SEMICOLON" THEN nextToken(l, p) ELSE p,
              [kind |-> "ExpressionStatement", Expression |-> r.val])

\* Parser.parseStatement
parseStatement(l, p) ==
  CASE isTypeKeyword(l[p.pos].Type) -> parseDeclaration(l, p)
    [] l[p.pos].Type = "RETURN" -> parseReturnStatement(l, p)
    [] l[p.pos].Type = "IF" -> parseIfStatement(l, p)
    [] l[p.pos].Type = "WHILE" -> parseWhileStatement(l, p)
    [] l[p.pos].Type = "FOR" -> parseForStatement(l, p)
    [] l[p.pos].Type = "BREAK" -> parseBreakStatement(l, p)
    [] l[p.pos].Type = "CONTINUE" -> parseContinueStatement(l, p)
    [] l[p.pos].Type = "LBRACE" -> parseBlockStatement(l, p)
    [] OTHER -> parseExpressionStatement(l, p)

\* Parser.ParseProgram, the loop: the statements up to the end of input
ParseProgramLoop(l, p, stmts) ==
  CASE l[p.pos].Type = "EOF" ->
         [p EXCEPT !.ctl = ParserCtl("exit", 0, [kind |-> "Program",
                                                 Statements |-> stmts])]
    [] OTHER ->
         ParseCall(p, ParserFrame("ParseProgram", "statement", stmts),
                   "parseStatement", 0)

ParseProgramResume(l, p, f, r) ==
  ParseProgramLoop(l, nextToken(l, p),
                   IF r.val # Nil THEN Append(f.loc, r.val) ELSE f.loc)

\* a callee has returned r.val to the parse function of frame f
ParseResume(l, p, f, r) ==
  CASE f.fn = "parseExpression" -> parseExpressionResume(l, p, f, r)
    [] f.fn = "parseInfixExpression" -> parseInfixExpressionResume(l, p, f, r)
    [] f.fn = "parseBlockStatement" -> parseBlockStatementResume(l, p, f, r)
    [] f.fn = "parseExpressionStatement" ->
         parseExpressionStatementResume(l, p, f, r)
    [] f.fn = "parseCallExpression" -> parseCallExpressionResume(l, p, f, r)
    [] f.fn = "parseExpressionList" -> parseExpressionListResume(l, p, f, r)
    [] f.fn = "parseReturnStatement" -> parseReturnStatementResume(l, p, f, r)
    [] f.fn = "parseVarDecl" -> parseVarDeclResume(l, p, f, r)
    [] f.fn = "parseAssignmentExpression" ->
         parseAssignmentExpressionResume(l, p, f, r)
    [] f.fn = "parsePrefixExpression" ->
         parsePrefixExpressionResume(l, p, f, r)
    [] f.fn = "parseIfStatement" -> parseIfStatementResume(l, p, f, r)
    [] f.fn = "parseWhileStatement" -> parseWhileStatementResume(l, p, f, r)
    [] f.fn = "parseForStatement" -> parseForStatementResume(l, p, f, r)
    [] f.fn = "parseFunctionDecl" -> parseFunctionDeclResume(l, p, f, r)
    [] f.fn = "parseConditionalExpression" ->
         parseConditionalExpressionResume(l, p, f, r)
    [] f.fn = "parseArrayExpression" -> parseArrayExpressionResume(l, p, f, r)
    [] OTHER -> ParseProgramResume(l, p, f, r)

\* one transfer of control in the parser
ParseTransfer(l, p) ==
  CASE p.ctl.op = "return" ->
         ParseResume(l, [p EXCEPT !.frames = SubSeq(@, 1, Len(@) - 1)],
                     p.frames[Len(p.frames)], p.ctl)
    [] p.ctl.op = "parseExpression" -> parseExpression(l, p, p.ctl.arg)
    [] p.ctl.op = "parseStatement" -> parseStatement(l, p)
    [] p.ctl.op = "parseBlockStatement" -> parseBlockStatement(l, p)
    [] p.ctl.op = "parseExpressionList" ->
         parseExpressionList(l, p, p.ctl.arg)
    [] OTHER -> p

\* 4^k transfers of control, or as many as it takes until ParseProgram has
\* returned
RECURSIVE ParseExec(_, _, _)
ParseExecFrom(l, h, k) ==
  CASE h.ctl.op = "exit" -> h
    [] OTHER -> ParseExec(l, h, k)

ParseExec(l, p, k) ==
  CASE k = 0 -> ParseTransfer(l, p)
    [] OTHER ->
         ParseExecFrom(
           l, ParseExecFrom(
                l, ParseExecFrom(l, ParseExec(l, p, k - 1), k - 1), k - 1),
           k - 1)

\* Parser.ParseProgram: the parser after it; its ctl.val is the program
ParseProgram(l) == ParseExec(l, ParseProgramLoop(l, NewParser, <<>>), MaxExec)
(***************************************************************************)
(* interpreter.go: values, environments and the evaluator.                 *)
(*                                                                         *)
(* The evaluator works on a machine record m: the Interpreter's fields,    *)
(* the memory its pointers point into (envs, heap), the standard output    *)
(* written by the built-ins during the current call (stdout) and the       *)
(* record of what the current call evaluated (trace).  An address 0 is the *)
(* nil pointer.  Only integer and string values occur in the explored      *)
(* sources, so Value carries no Float field; integers stay far inside the  *)
(* 64-bit range, where Go's wrapping arithmetic is plain arithmetic.       *)
(*                                                                         *)
(* The evaluator's functions call each other recursively.  The Go call     *)
(* stack is explicit in the machine: frames holds, for every active call   *)
(* of an evaluator function, the function, the place in its code where it  *)
(* continues when the call it made returns (at), its arguments node and    *)
(* env and its local variables (loc); ctl is what happens next: the call   *)
(* of a function on (node, env), or the return of (val, err) to the frame  *)
(* on top.  For a function f of the evaluator, the operator f is its code  *)
(* from its entry to the first call it makes (or its return), and fResume  *)
(* is its code from the return of a call it made to the next one.          *)
(***************************************************************************)
Value(type, int, str) == [Type |-> type, Int |-> int, Str |-> str]

\* a store with no binding
NewStore == [n \in {} |-> 0]

\* NewEnclosedEnvironment (NewEnvironment when outer = 0): the new
\* environment has address Len(m.envs) + 1
NewEnclosedEnvironment(m, outer) ==
  [m EXCEPT !.envs = Append(@, [store |-> NewStore, outer |-> outer])]

\* Environment.Get
RECURSIVE Get(_, _, _)
Get(m, e, name) ==
  CASE name \in DOMAIN m.envs[e].store ->
         [val |-> m.envs[e].store[name], ok |-> TRUE]
    [] m.envs[e].outer # 0 -> Get(m, m.envs[e].outer, name)
    [] OTHER -> [val |-> 0, ok |-> FALSE]

\* Environment.Set
Set(m, e, name, val) ==
  [m EXCEPT !.envs[e].store = (name :> val) @@ @]

\* a Go run-time panic unwinds every caller
Panic == "panic"

\* what the evaluator does next, and a frame of its call stack
Ctl(op, node, env, val, err) ==
  [op |-> op, node |-> node, env |-> env, val |-> val, err |-> err]
Frame(fn, at, node, env, loc) ==
  [fn |-> fn, at |-> at, node |-> node, env |-> env, loc |-> loc]

\* a call of the evaluator function op on (node, env) by the function of
\* frame, which continues at frame.at when the call returns
Call(m, frame, op, node, env) ==
  [m EXCEPT !.frames = Append(@, frame), !.ctl = Ctl(op, node, env, 0, "")]

\* "return op(node, env)": the callee returns to the caller's caller
TailCall(m, op, node, env) == [m EXCEPT !.ctl = Ctl(op, node, env, 0, "")]

\* "return val, err" (err = "" is the nil error; val = 0 the nil pointer)
Return(m, val, err) == [m EXCEPT !.ctl = Ctl("return", 0, 0, val, err)]

\* "return &Value{...}, nil": a fresh cell
ReturnNew(m, v) ==
  [m EXCEPT !.heap = Append(@, v),
            !.ctl = Ctl("return", 0, 0, Len(m.heap) + 1, "")]

\* logging of evaluation events
Log(m, ev) == [m EXCEPT !.trace = Append(@, ev)]

isTruthy(v) == v.Int # 0

boolToInt(b) == IF b THEN 1 ELSE 0

\* Go's truncated integer division and remainder (right operand non-zero)
Abs(a) == IF a < 0 THEN -a ELSE a
Quo(a, b) ==
  LET q == Abs(a) \div Abs(b) IN IF (a < 0) # (b < 0) THEN -q ELSE q
Rem(a, b) == a - b * Quo(a, b)

\* two's-complement bitwise operators
BitOf(op, x, y) ==
  CASE op = "&" -> IF x = 1 /\ y = 1 THEN 1 ELSE 0
    [] op = "|" -> IF x = 1 \/ y = 1 THEN 1 ELSE 0
    [] OTHER -> IF x # y THEN 1 ELSE 0

RECURSIVE Bitwise(_, _, _)
Bitwise(op, a, b) ==
  IF a \in {0, -1} /\ b \in {0, -1} THEN -BitOf(op, a % 2, b % 2)
  ELSE BitOf(op, a % 2, b % 2) + 2 * Bitwise(op, a \div 2, b \div 2)

RECURSIVE Pow2(_)
Pow2(n) == IF n = 0 THEN 1 ELSE 2 * Pow2(n - 1)

\* left.Int << uint(right.Int) and left.Int >> uint(right.Int)
ShiftLeft(a, n) == IF n < 0 \/ n >= 64 THEN 0 ELSE a * Pow2(n)
ShiftRight(a, n) ==
  IF n < 0 \/ n >= 64 THEN (IF a < 0 THEN -1 ELSE 0) ELSE a \div Pow2(n)

\* the built-in functions that occur in the explored sources
builtins == {"printf", "putchar"}

\* processEscapeSequences on the explored string literals
processEscapeSequences(s) ==
  IF s = "%d\\n" THEN "%d\n" ELSE s

\* Interpreter.evalPrefixExpression
evalPrefixExpression(m, node, env) ==
  Call(m, Frame("evalPrefixExpression", "right", node, env, 0),
       "evalExpression", node.Right, env)

evalPrefixExpressionResume(m, f, r) ==
  LET right == m.heap[r.val]
      val == Get(m, f.env, f.node.Right.Value).val
  IN CASE r.err # "" -> Return(m, 0, r.err)
       [] f.node.Operator = "-" -> ReturnNew(m, Value("int", -right.Int, ""))
       [] f.node.Operator = "!" ->
            ReturnNew(m, Value("int", boolToInt(~isTruthy(right)), ""))
       [] f.node.Operator = "~" ->
            ReturnNew(m, Value("int", -right.Int - 1, ""))
       [] f.node.Operator = "++" /\ f.node.Right.kind = "Identifier" ->
            Return([m EXCEPT !.heap[val].Int = @ + 1], val, "")
       [] f.node.Operator = "--" /\ f.node.Right.kind = "Identifier" ->
            Return([m EXCEPT !.heap[val].Int = @ - 1], val, "")
       [] OTHER ->
            Return(m, 0, "unknown prefix operator: " \o f.node.Operator)

\* Interpreter.evalPostfixExpression
evalPostfixExpression(m, node, env) ==
  Call(m, Frame("evalPostfixExpression", "left", node, env, 0),
       "evalExpression", node.Left, env)

\* oldValue is the fresh cell at Len(m.heap) + 1
evalPostfixExpressionResume(m, f, r) ==
  LET left == m.heap[r.val]
      old == [m EXCEPT !.heap = Append(@, Value(left.Type, left.Int, ""))]
      oldValue == Len(m.heap) + 1
      val == Get(old, f.env, f.node.Left.Value).val
  IN CASE r.err # "" -> Return(m, 0, r.err)
       [] f.node.Operator \notin {"++", "--"} ->
            Return(old, 0, "unknown postfix operator: " \o f.node.Operator)
       [] f.node.Left.kind # "Identifier" -> Return(old, oldValue, "")
       [] f.node.Operator = "++" ->
            Return([old EXCEPT !.heap[val].Int = @ + 1], oldValue, "")
       [] OTHER -> Return([old EXCEPT !.heap[val].Int = @ - 1], oldValue, "")

\* Interpreter.evalInfixExpression
evalInfixExpression(m, node, env) ==
  Call(m, Frame("evalInfixExpression", "left", node, env, 0),
       "evalExpression", node.Left, env)

\* Interpreter.evalInfixExpression, the integer operations; f.loc is left
evalInfixExpressionResume(m, f, r) ==
  LET a == m.heap[f.loc].Int
      b == m.heap[r.val].Int
      op == f.node.Operator
  IN CASE r.err # "" -> Return(m, 0, r.err)
       [] f.at = "left" ->
            Call(m, Frame("evalInfixExpression", "right", f.node, f.env, r.val),
                 "evalExpression", f.node.Right, f.env)
       [] op = "+" -> ReturnNew(m, Value("int", a + b, ""))
       [] op = "-" -> ReturnNew(m, Value("int", a - b, ""))
       [] op = "*" -> ReturnNew(m, Value("int", a * b, ""))
       [] op = "/" /\ b = 0 -> Return(m, 0, "division by zero")
       [] op = "/" -> ReturnNew(m, Value("int", Quo(a, b), ""))
       [] op = "%" /\ b = 0 -> Return(m, 0, Panic)
       [] op = "%" -> ReturnNew(m, Value("int", Rem(a, b), ""))
       [] op = "<" -> ReturnNew(m, Value("int", boolToInt(a < b), ""))
       [] op = ">" -> ReturnNew(m, Value("int", boolToInt(a > b), ""))
       [] op = "<=" -> ReturnNew(m, Value("int", boolToInt(a <= b), ""))
       [] op = ">=" -> ReturnNew(m, Value("int", boolToInt(a >= b), ""))
       [] op = "==" -> ReturnNew(m, Value("int", boolToInt(a = b), ""))
       [] op = "!=" -> ReturnNew(m, Value("int", boolToInt(a # b), ""))
       [] op = "&&" ->
            ReturnNew(m, Value("int", boolToInt(a # 0 /\ b # 0), ""))
       [] op = "||" ->
            ReturnNew(m, Value("int", boolToInt(a # 0 \/ b # 0), ""))
       [] op \in {"&", "|", "^"} ->
            ReturnNew(m, Value("int", Bitwise(op, a, b), ""))
       [] op = "<<" -> ReturnNew(m, Value("int", ShiftLeft(a, b), ""))
       [] op = ">>" -> ReturnNew(m, Value("int", ShiftRight(a, b), ""))
       [] OTHER -> Return(m, 0, "unknown infix operator: " \o op)

\* Interpreter.evalAssignmentExpression
evalAssignmentExpression(m, node, env) ==
  Call(m, Frame("evalAssignmentExpression", "right", node, env, 0),
       "evalExpression", node.Right, env)

\* Interpreter.evalAssignmentExpression, a compound assignment: result is a
\* fresh cell, which env.Set binds to the name
AssignResult(m, env, name, type, n) ==
  [m EXCEPT !.heap = Append(@, Value(type, n, "")),
            !.envs[env].store = (name :> (Len(m.heap) + 1)) @@ @,
            !.ctl = Ctl("return", 0, 0, Len(m.heap) + 1, "")]

evalAssignmentExpressionResume(m, f, r) ==
  LET name == f.node.Left.Value
      left == Get(m, f.env, name)
      t == m.heap[left.val].Type
      a == m.heap[left.val].Int
      b == m.heap[r.val].Int
      op == f.node.Operator
  IN CASE r.err # "" -> Return(m, 0, r.err)
       [] f.node.Left.kind # "Identifier" ->
            Return(m, 0, "invalid assignment target")
       [] op = "=" -> Return(Set(m, f.env, name, r.val), r.val, "")
       [] ~left.ok -> Return(m, 0, "undefined variable: " \o name)
       [] op = "+=" -> AssignResult(m, f.env, name, t, a + b)
       [] op = "-=" -> AssignResult(m, f.env, name, t, a - b)
       [] op = "*=" -> AssignResult(m, f.env, name, t, a * b)
       [] op = "/=" /\ b = 0 -> Return(m, 0, Panic)
       [] op = "/=" -> AssignResult(m, f.env, name, t, Quo(a, b))
       [] op = "%=" /\ b = 0 -> Return(m, 0, Panic)
       [] op = "%=" -> AssignResult(m, f.env, name, t, Rem(a, b))
       [] op = "&=" -> AssignResult(m, f.env, name, t, Bitwise("&", a, b))
       [] op = "|=" -> AssignResult(m, f.env, name, t, Bitwise("|", a, b))
       [] op = "^=" -> AssignResult(m, f.env, name, t, Bitwise("^", a, b))
       [] op = "<<=" -> AssignResult(m, f.env, name, t, ShiftLeft(a, b))
       [] op = ">>=" -> AssignResult(m, f.env, name, t, ShiftRight(a, b))
       [] OTHER -> Return(m, 0, "unknown assignment operator: " \o op)

\* Interpreter.evalFunctionBody
evalFunctionBody(m, block, env) ==
  Call([m EXCEPT !.shouldReturn = FALSE, !.returnValue = 0],
       Frame("evalFunctionBody", "block", block, env, 0),
       "evalBlockStatement", block, env)

\* a function body that yields the default 0 whatever was returned
evalFunctionBodyDefault(m, f, r) ==
  CASE r.err # "" -> Return(m, 0, r.err)
    [] OTHER -> ReturnNew(m, Value("int", 0, ""))

evalFunctionBodyResume(m, f, r) ==
  CASE r.err # "" -> Return(m, 0, r.err)
    [] m.returnValue # 0 -> Return(m, m.returnValue, "")
    [] OTHER -> ReturnNew(m, Value("int", 0, ""))

\* Interpreter.evalCallExpression, the parameter-binding loop from index idx
\* on (parameters without an argument stay unbound) and the call of the
\* body; loc holds fn, fnEnv and the saved return state
bindParameters(m, node, env, loc, idx) ==
  CASE idx <= Len(loc.fn.Parameters) /\ idx <= Len(node.Arguments) ->
         Call(m, Frame("evalCallExpression", "argument", node, env,
                       [loc EXCEPT !.idx = idx]),
              "evalExpression", node.Arguments[idx], env)
    [] OTHER ->
         Call(m, Frame("evalCallExpression", "body", node, env, loc),
              "evalFunctionBody", loc.fn.Body, loc.fnEnv)

\* registerBuiltins, printf: the argument loop from index idx on, and the
\* output; loc holds the format and the argument values so far
printfArgs(m, node, env, loc, idx) ==
  CASE idx <= Len(node.Arguments) ->
         Call(m, Frame("printf", "argument", node, env,
                       [loc EXCEPT !.idx = idx]),
              "evalExpression", node.Arguments[idx], env)
    [] OTHER ->
         ReturnNew([m EXCEPT !.stdout =
                      Append(@, [fn |-> "printf", format |-> loc.format,
                                 args |-> loc.argVals])],
                   Value("int", 0, ""))

\* registerBuiltins, printf
printfResume(m, f, r) ==
  CASE r.err # "" -> Return(m, 0, r.err)
    [] f.at = "format" ->
         printfArgs(m, f.node, f.env,
                    [format |-> processEscapeSequences(m.heap[r.val].Str),
                     argVals |-> <<>>, idx |-> 1], 2)
    [] OTHER ->
         printfArgs(m, f.node, f.env,
                    [f.loc EXCEPT !.argVals =
                       Append(@, IF m.heap[r.val].Type = "string"
                                   THEN m.heap[r.val].Str
                                   ELSE m.heap[r.val].Int)],
                    f.loc.idx + 1)

\* registerBuiltins, putchar
putcharResume(m, f, r) ==
  CASE r.err # "" -> Return(m, 0, r.err)
    [] OTHER ->
         ReturnNew([m EXCEPT !.stdout =
                      Append(@, [fn |-> "putchar", format |-> "%c",
                                 args |-> <<m.heap[r.val].Int % 256>>])],
                   Value("int", m.heap[r.val].Int, ""))

\* Interpreter.evalCallExpression
\* a call whose scope is enclosed in the caller's scope
evalCallExpressionInCaller(m, node, env) ==
  LET funcName == node.Function.Value IN
  CASE node.Function.kind # "Identifier" ->
         Return(m, 0, "invalid function call")
    [] funcName \in builtins /\ Len(node.Arguments) = 0 ->
         ReturnNew(m, Value("int", 0, ""))
    [] funcName = "printf" ->
         Call(m, Frame("printf", "format", node, env, 0),
              "evalExpression", node.Arguments[1], env)
    [] funcName = "putchar" ->
         Call(m, Frame("putchar", "val", node, env, 0),
              "evalExpression", node.Arguments[1], env)
    [] funcName \in DOMAIN m.functions ->
         bindParameters(NewEnclosedEnvironment(m, env), node, env,
                        [fn |-> m.functions[funcName],
                         fnEnv |-> Len(m.envs) + 1,
                         savedShouldReturn |-> m.shouldReturn,
                         savedReturnValue |-> m.returnValue,
                         idx |-> 0], 1)
    [] OTHER -> Return(m, 0, "undefined function: " \o funcName)

evalCallExpression(m, node, env) ==
  LET funcName == node.Function.Value IN
  CASE node.Function.kind # "Identifier" ->
         Return(m, 0, "invalid function call")
    [] funcName \in builtins /\ Len(node.Arguments) = 0 ->
         ReturnNew(m, Value("int", 0, ""))
    [] funcName = "printf" ->
         Call(m, Frame("printf", "format", node, env, 0),
              "evalExpression", node.Arguments[1], env)
    [] funcName = "putchar" ->
         Call(m, Frame("putchar", "val", node, env, 0),
              "evalExpression", node.Arguments[1], env)
    [] funcName \in DOMAIN m.functions ->
         bindParameters(NewEnclosedEnvironment(m, m.globals), node, env,
                        [fn |-> m.functions[funcName],
                         fnEnv |-> Len(m.envs) + 1,
                         savedShouldReturn |-> m.shouldReturn,
                         savedReturnValue |-> m.returnValue,
                         idx |-> 0], 1)
    [] OTHER -> Return(m, 0, "undefined function: " \o funcName)

\* a call that does not restore the return state
evalCallExpressionNoRestore(m, f, r) ==
  CASE f.at = "argument" /\ r.err # "" -> Return(m, 0, r.err)
    [] f.at = "argument" ->
         bindParameters(Set(m, f.loc.fnEnv,
                            f.loc.fn.Parameters[f.loc.idx].Name, r.val),
                        f.node, f.env, f.loc, f.loc.idx + 1)
    [] OTHER -> Return(m, r.val, r.err)

evalCallExpressionResume(m, f, r) ==
  CASE f.at = "argument" /\ r.err # "" -> Return(m, 0, r.err)
    [] f.at = "argument" ->
         bindParameters(Set(m, f.loc.fnEnv,
                            f.loc.fn.Parameters[f.loc.idx].Name, r.val),
                        f.node, f.env, f.loc, f.loc.idx + 1)
    [] OTHER ->
         Return([m EXCEPT !.shouldReturn = f.loc.savedShouldReturn,
                          !.returnValue = f.loc.savedReturnValue],
                r.val, r.err)

\* Interpreter.evalConditionalExpression
evalConditionalExpression(m, node, env) ==
  Call(m, Frame("evalConditionalExpression", "condition", node, env, 0),
       "evalExpression", node.Condition, env)

evalConditionalExpressionResume(m, f, r) ==
  CASE r.err # "" -> Return(m, 0, r.err)
    [] isTruthy(m.heap[r.val]) ->
         TailCall(m, "evalExpression", f.node.Consequence, f.env)
    [] OTHER -> TailCall(m, "evalExpression", f.node.Alternative, f.env)

\* Interpreter.evalExpression
evalExpression(m, expr, env) ==
  CASE expr.kind = "IntegerLiteral" ->
         ReturnNew(m, Value("int", expr.Value, ""))
    [] expr.kind = "StringLiteral" ->
         ReturnNew(m, Value("string", 0, expr.Value))
    [] expr.kind = "Identifier" /\ Get(m, env, expr.Value).ok ->
         Return(m, Get(m, env, expr.Value).val, "")
    [] expr.kind = "Identifier" ->
         Return(m, 0, "undefined variable: " \o expr.Value)
    [] expr.kind = "PrefixExpression" -> evalPrefixExpression(m, expr, env)
    [] expr.kind = "PostfixExpression" -> evalPostfixExpression(m, expr, env)
    [] expr.kind = "InfixExpression" -> evalInfixExpression(m, expr, env)
    [] expr.kind = "AssignmentExpression" ->
         evalAssignmentExpression(m, expr, env)
    [] expr.kind = "CallExpression" -> evalCallExpression(m, expr, env)
    [] expr.kind = "ConditionalExpression" ->
         evalConditionalExpression(m, expr, env)
    [] OTHER -> Return(m, 0, "unknown expression type")

\* Interpreter.evalVarDecl
evalVarDecl(m, node, env) ==
  CASE node.Value # Nil ->
         Call(m, Frame("evalVarDecl", "value", node, env, 0),
              "evalExpression", node.Value, env)
    [] OTHER ->
         Return([m EXCEPT !.heap = Append(@, Value(node.Type, 0, "")),
                          !.envs[env].store =
                             (node.Name :> (Len(m.heap) + 1)) @@ @],
                0, "")

evalVarDeclResume(m, f, r) ==
  CASE r.err # "" -> Return(m, 0, r.err)
    [] OTHER -> Return(Set(m, f.env, f.node.Name, r.val), 0, "")

\* Interpreter.evalBlockStatement, the loop from statement k on
blockLoop(m, block, env, k) ==
  CASE k <= Len(block.Statements) ->
         Call(m, Frame("evalBlockStatement", "statement", block, env, k),
              "evalStatement", block.Statements[k], env)
    [] OTHER -> Return(m, 0, "")

\* Interpreter.evalBlockStatement; a nil block is dereferenced
evalBlockStatement(m, block, env) ==
  CASE block.kind = "nilptr" -> Return(m, 0, Panic)
    [] OTHER -> blockLoop(m, block, env, 1)

\* a block that goes on after a return
evalBlockStatementPastReturn(m, f, r) ==
  CASE r.err # "" -> Return(m, 0, r.err)
    [] m.shouldBreak \/ m.shouldContinue -> Return(m, 0, "")
    [] OTHER -> blockLoop(m, f.node, f.env, f.loc + 1)

evalBlockStatementResume(m, f, r) ==
  CASE r.err # "" -> Return(m, 0, r.err)
    [] m.shouldReturn \/ m.shouldBreak \/ m.shouldContinue -> Return(m, 0, "")
    [] OTHER -> blockLoop(m, f.node, f.env, f.loc + 1)

\* Interpreter.evalIfStatement
evalIfStatement(m, node, env) ==
  Call(m, Frame("evalIfStatement", "condition", node, env, 0),
       "evalExpression", node.Condition, env)

evalIfStatementResume(m, f, r) ==
  CASE r.err # "" -> Return(m, 0, r.err)
    [] isTruthy(m.heap[r.val]) ->
         TailCall(m, "evalBlockStatement", f.node.Consequence, f.env)
    [] f.node.Alternative.kind # "nilptr" ->
         TailCall(m, "evalBlockStatement", f.node.Alternative, f.env)
    [] OTHER -> Return(m, 0, "")

\* Interpreter.evalWhileStatement
evalWhileStatement(m, node, env) ==
  Call(Log(m, "cond"), Frame("evalWhileStatement", "condition", node, env, 0),
       "evalExpression", node.Condition, env)

\* a while loop that ends on break without clearing the flag
evalWhileStatementKeepingBreak(m, f, r) ==
  CASE r.err # "" -> Return(m, 0, r.err)
    [] f.at = "condition" /\ ~isTruthy(m.heap[r.val]) -> Return(m, 0, "")
    [] f.at = "condition" ->
         Call(Log(m, "body"),
              Frame("evalWhileStatement", "body", f.node, f.env, 0),
              "evalBlockStatement", f.node.Body, f.env)
    [] m.shouldReturn -> Return(m, 0, "")
    [] m.shouldBreak -> Return(m, 0, "")
    [] OTHER ->
         evalWhileStatement([m EXCEPT !.shouldContinue = FALSE],
                            f.node, f.env)

evalWhileStatementResume(m, f, r) ==
  CASE r.err # "" -> Return(m, 0, r.err)
    [] f.at = "condition" /\ ~isTruthy(m.heap[r.val]) -> Return(m, 0, "")
    [] f.at = "condition" ->
         Call(Log(m, "body"),
              Frame("evalWhileStatement", "body", f.node, f.env, 0),
              "evalBlockStatement", f.node.Body, f.env)
    [] m.shouldReturn -> Return(m, 0, "")
    [] m.shouldBreak -> Return([m EXCEPT !.shouldBreak = FALSE], 0, "")
    [] OTHER ->
         evalWhileStatement([m EXCEPT !.shouldContinue = FALSE],
                            f.node, f.env)

\* Interpreter.evalForStatement, the loop: the condition of an iteration
forCondition(m, node, loopEnv) ==
  CASE node.Condition # Nil ->
         Call(Log(m, "cond"),
              Frame("evalForStatement", "condition", node, 0, loopEnv),
              "evalExpression", node.Condition, loopEnv)
    [] OTHER ->
         Call(Log(m, "body"),
              Frame("evalForStatement", "body", node, 0, loopEnv),
              "evalBlockStatement", node.Body, loopEnv)

\* Interpreter.evalForStatement; loopEnv is the new environment, at
\* address Len(m.envs) + 1
evalForStatement(m, node, env) ==
  CASE node.Init # Nil ->
         Call(NewEnclosedEnvironment(m, env),
              Frame("evalForStatement", "init", node, env, Len(m.envs) + 1),
              "evalStatement", node.Init, Len(m.envs) + 1)
    [] OTHER ->
         forCondition(NewEnclosedEnvironment(m, env), node, Len(m.envs) + 1)

\* f.loc is loopEnv
\* a for loop that does not test the break flag after the body
evalForStatementPastBreak(m, f, r) ==
  CASE r.err # "" -> Return(m, 0, r.err)
    [] f.at = "init" -> forCondition(m, f.node, f.loc)
    [] f.at = "condition" /\ ~isTruthy(m.heap[r.val]) -> Return(m, 0, "")
    [] f.at = "condition" ->
         Call(Log(m, "body"),
              Frame("evalForStatement", "body", f.node, 0, f.loc),
              "evalBlockStatement", f.node.Body, f.loc)
    [] f.at = "post" -> forCondition(m, f.node, f.loc)
    [] m.shouldReturn -> Return(m, 0, "")
    [] f.node.Post # Nil ->
         Call(Log([m EXCEPT !.shouldContinue = FALSE,
                            !.shouldBreak = FALSE], "post"),
              Frame("evalForStatement", "post", f.node, 0, f.loc),
              "evalExpression", f.node.Post, f.loc)
    [] OTHER ->
         forCondition([m EXCEPT !.shouldContinue = FALSE], f.node, f.loc)

evalForStatementResume(m, f, r) ==
  CASE r.err # "" -> Return(m, 0, r.err)
    [] f.at = "init" -> forCondition(m, f.node, f.loc)
    [] f.at = "condition" /\ ~isTruthy(m.heap[r.val]) -> Return(m, 0, "")
    [] f.at = "condition" ->
         Call(Log(m, "body"),
              Frame("evalForStatement", "body", f.node, 0, f.loc),
              "evalBlockStatement", f.node.Body, f.loc)
    [] f.at = "post" -> forCondition(m, f.node, f.loc)
    [] m.shouldReturn -> Return(m, 0, "")
    [] m.shouldBreak -> Return([m EXCEPT !.shouldBreak = FALSE], 0, "")
    [] f.node.Post # Nil ->
         Call(Log([m EXCEPT !.shouldContinue = FALSE], "post"),
              Frame("evalForStatement", "post", f.node, 0, f.loc),
              "evalExpression", f.node.Post, f.loc)
    [] OTHER ->
         forCondition([m EXCEPT !.shouldContinue = FALSE], f.node, f.loc)

\* Interpreter.evalStatement; a nil pointer to an if, while or for statement
\* is dereferenced by the evaluator of that statement
evalStatement(m, stmt, env) ==
  CASE stmt.kind = "VarDecl" -> evalVarDecl(Log(m, stmt.kind), stmt, env)
    [] stmt.kind = "ExpressionStatement" ->
         Call(Log(m, stmt.kind),
              Frame("evalStatement", "ExpressionStatement", stmt, env, 0),
              "evalExpression", stmt.Expression, env)
    [] stmt.kind = "ReturnStatement" /\ stmt.ReturnValue # Nil ->
         Call(Log(m, stmt.kind),
              Frame("evalStatement", "ReturnStatement", stmt, env, 0),
              "evalExpression", stmt.ReturnValue, env)
    [] stmt.kind = "ReturnStatement" ->
         Return([Log(m, stmt.kind) EXCEPT !.shouldReturn = TRUE], 0, "")
    [] stmt.kind = "IfStatement" ->
         evalIfStatement(Log(m, stmt.kind), stmt, env)
    [] stmt.kind = "WhileStatement" ->
         evalWhileStatement(Log(m, stmt.kind), stmt, env)
    [] stmt.kind = "ForStatement" ->
         evalForStatement(Log(m, stmt.kind), stmt, env)
    [] stmt.kind = "BlockStatement" ->
         evalBlockStatement(Log(m, stmt.kind), stmt, env)
    [] stmt.kind = "BreakStatement" ->
         Return([Log(m, stmt.kind) EXCEPT !.shouldBreak = TRUE], 0, "")
    [] stmt.kind = "ContinueStatement" ->
         Return([Log(m, stmt.kind) EXCEPT !.shouldContinue = TRUE], 0, "")
    [] stmt.kind = "nilptr"
         /\ stmt.type \in {"IfStatement", "WhileStatement", "ForStatement"} ->
         Return(Log(m, stmt.kind), 0, Panic)
    [] OTHER -> Return(Log(m, stmt.kind), 0, "")

evalStatementResume(m, f, r) ==
  CASE r.err # "" -> Return(m, 0, r.err)
    [] f.at = "ReturnStatement" ->
         Return([m EXCEPT !.returnValue = r.val, !.shouldReturn = TRUE], 0, "")
    [] OTHER -> Return(m, 0, "")

(***************************************************************************)
(* The execution of the evaluator: one transfer of control at a time until *)
(* the operation that called it (Run or Step, the bottom frame) has its    *)
(* result.                                                                 *)
(***************************************************************************)
\* the return of (val, err) to the function of the popped frame f
Resume(m, f, r) ==
  CASE r.err = Panic \/ f.fn \in {"Run", "Step"} ->
         [m EXCEPT !.frames = <<>>, !.ctl = Ctl("exit", 0, 0, r.val, r.err)]
    [] f.fn = "evalStatement" -> evalStatementResume(m, f, r)
    [] f.fn = "evalBlockStatement" -> evalBlockStatementResume(m, f, r)
    [] f.fn = "evalInfixExpression" -> evalInfixExpressionResume(m, f, r)
    [] f.fn = "evalCallExpression" -> evalCallExpressionResume(m, f, r)
    [] f.fn = "evalFunctionBody" -> evalFunctionBodyResume(m, f, r)
    [] f.fn = "evalIfStatement" -> evalIfStatementResume(m, f, r)
    [] f.fn = "evalForStatement" -> evalForStatementResume(m, f, r)
    [] f.fn = "evalWhileStatement" -> evalWhileStatementResume(m, f, r)
    [] f.fn = "evalVarDecl" -> evalVarDeclResume(m, f, r)
    [] f.fn = "evalAssignmentExpression" ->
         evalAssignmentExpressionResume(m, f, r)
    [] f.fn = "evalPrefixExpression" -> evalPrefixExpressionResume(m, f, r)
    [] f.fn = "evalPostfixExpression" -> evalPostfixExpressionResume(m, f, r)
    [] f.fn = "evalConditionalExpression" ->
         evalConditionalExpressionResume(m, f, r)
    [] f.fn = "printf" -> printfResume(m, f, r)
    [] OTHER -> putcharResume(m, f, r)

\* one transfer of control: a call enters its function, a return re-enters
\* the caller on top of the stack
Transfer(m) ==
  CASE m.ctl.op = "return" ->
         Resume([m EXCEPT !.frames = SubSeq(@, 1, Len(@) - 1)],
                m.frames[Len(m.frames)], m.ctl)
    [] m.ctl.op = "evalExpression" ->
         evalExpression(m, m.ctl.node, m.ctl.env)
    [] m.ctl.op = "evalStatement" -> evalStatement(m, m.ctl.node, m.ctl.env)
    [] m.ctl.op = "evalBlockStatement" ->
         evalBlockStatement(m, m.ctl.node, m.ctl.env)
    [] m.ctl.op = "evalFunctionBody" ->
         evalFunctionBody(m, m.ctl.node, m.ctl.env)
    [] OTHER -> m

\* 4^k transfers of control, or as many as it takes to the exit
RECURSIVE Exec(_, _)
ExecFrom(h, k) ==
  CASE h.ctl.op = "exit" -> h
    [] OTHER -> Exec(h, k)

Exec(m, k) ==
  CASE k = 0 -> Transfer(m)
    [] OTHER ->
         ExecFrom(ExecFrom(ExecFrom(Exec(m, k - 1), k - 1), k - 1), k - 1)

(***************************************************************************)
(* The Interpreter and its operations.                                     *)
(***************************************************************************)
\* the function declarations of a program, the last one of a name winning
RECURSIVE collectFunctions(_, _, _)
collectFunctions(stmts, k, functions) ==
  CASE k > Len(stmts) -> functions
    [] stmts[k].kind = "FunctionDecl" ->
         collectFunctions(stmts, k + 1, (stmts[k].Name :> stmts[k]) @@ functions)
    [] OTHER -> collectFunctions(stmts, k + 1, functions)

\* NewInterpreter: the global environment is the environment at address 1
NewInterpreter(program) ==
  [program |-> program,
   globals |-> 1,
   functions |-> collectFunctions(program.Statements, 1, [n \in {} |-> Nil]),
   stepMode |-> FALSE,
   stepIndex |-> 0,
   stepStack |-> <<>>,
   currentEnv |-> 0,
   shouldReturn |-> FALSE,
   returnValue |-> 0,
   shouldBreak |-> FALSE,
   shouldContinue |-> FALSE,
   envs |-> <<[store |-> NewStore, outer |-> 0]>>,
   heap |-> <<>>]

\* the machine a call of Run or Step starts on: nothing written or evaluated
\* yet by this call, and no evaluator function active
Machine(i) ==
  [program |-> i.program, globals |-> i.globals, functions |-> i.functions,
   stepMode |-> i.stepMode, stepIndex |-> i.stepIndex,
   stepStack |-> i.stepStack, currentEnv |-> i.currentEnv,
   shouldReturn |-> i.shouldReturn, returnValue |-> i.returnValue,
   shouldBreak |-> i.shouldBreak, shouldContinue |-> i.shouldContinue,
   envs |-> i.envs, heap |-> i.heap, stdout |-> <<>>, trace |-> <<>>,
   frames |-> <<>>, ctl |-> Ctl("exit", 0, 0, 0, "")]

\* New: the Cint (its Interpreter) and the error it returns; New does not
\* return while ParseProgram has not
NewResult(parser) ==
  CASE parser.ctl.op # "exit" -> [cint |-> Nil, err |-> Nil, fault |-> "hang"]
    [] Len(parser.errors) > 0 ->
         [cint |-> Nil, err |-> [kind |-> "ParseError",
                                 Errors |-> parser.errors],
          fault |-> "none"]
    [] OTHER -> [cint |-> NewInterpreter(parser.ctl.val), err |-> Nil,
                 fault |-> "none"]

NewOp(src) == NewResult(ParseProgram(NewLexer(src)))

\* Interpreter.Run; ret is the value evalFunctionBody yields, which Run drops
RunResult(fin) == [m |-> fin, err |-> fin.ctl.err, ret |-> fin.ctl.val]

RunOp(m) ==
  CASE "main" \in DOMAIN m.functions ->
         RunResult(Exec(Call([NewEnclosedEnvironment(m, m.globals)
                                EXCEPT !.currentEnv = Len(m.envs) + 1],
                             Frame("Run", "main", Nil, 0, 0),
                             "evalFunctionBody", m.functions["main"].Body,
                             Len(m.envs) + 1),
                        MaxExec))
    [] OTHER -> [m |-> m, err |-> "no main function found", ret |-> 0]

StepResult(statement, done, returned, returnVal, break, continue, error) ==
  [Statement |-> statement, Done |-> done, Returned |-> returned,
   ReturnVal |-> returnVal, Break |-> break, Continue |-> continue,
   Error |-> error]

\* Interpreter.Step, the initialisation on the first step
\* a Step initialisation that makes the global scope the current scope
StepInitInGlobals(m) ==
  CASE m.stepIndex = 0 /\ Len(m.stepStack) = 0
         /\ "main" \in DOMAIN m.functions
         /\ m.functions["main"].Body.kind # "nilptr" ->
         [m EXCEPT !.currentEnv = m.globals,
                   !.stepStack = m.functions["main"].Body.Statements]
    [] OTHER -> m

StepInit(m) ==
  CASE m.stepIndex = 0 /\ Len(m.stepStack) = 0
         /\ "main" \in DOMAIN m.functions
         /\ m.functions["main"].Body.kind # "nilptr" ->
         [NewEnclosedEnvironment(m, m.globals)
            EXCEPT !.currentEnv = Len(m.envs) + 1,
                   !.stepStack = m.functions["main"].Body.Statements]
    [] OTHER -> m

\* Interpreter.Step, the result after the evaluation of stmt has left e
StepEvaluated(e, stmt) ==
  [m |-> e,
   result |-> StepResult(stmt,
                         e.stepIndex >= Len(e.stepStack) \/ e.shouldReturn,
                         e.shouldReturn, e.returnValue,
                         e.shouldBreak, e.shouldContinue, e.ctl.err)]

\* Interpreter.Step after the initialisation: done, or the next statement
StepStatement(m) ==
  CASE m.stepIndex >= Len(m.stepStack) ->
         [m |-> m,
          result |-> StepResult(Nil, TRUE, FALSE, 0, FALSE, FALSE, "")]
    [] OTHER ->
         StepEvaluated(Exec(Call([m EXCEPT !.stepIndex = @ + 1],
                                 Frame("Step", "statement", Nil, 0, 0),
                                 "evalStatement",
                                 m.stepStack[m.stepIndex + 1], m.currentEnv),
                            MaxExec),
                       m.stepStack[m.stepIndex + 1])

\* a Step that does not test the step-mode switch
StepOpUnguarded(m) == StepStatement(StepInit(m))

\* Interpreter.Step
StepOp(m) ==
  CASE ~m.stepMode ->
         [m |-> m,
          result |-> StepResult(Nil, FALSE, FALSE, 0, FALSE, FALSE,
                                "single-step mode not enabled")]
    [] m.stepIndex = 0 /\ Len(m.stepStack) = 0
         /\ "main" \notin DOMAIN m.functions ->
         [m |-> m,
          result |-> StepResult(Nil, TRUE, FALSE, 0, FALSE, FALSE,
                                "no main function found")]
    [] OTHER -> StepStatement(StepInit(m))

\* a Reset that leaves the step index and the step queue as they are
ResetKeepingQueue(m) ==
  [NewEnclosedEnvironment(m, 0)
     EXCEPT !.currentEnv = Len(m.envs) + 1,
            !.shouldReturn = FALSE, !.returnValue = 0,
            !.shouldBreak = FALSE, !.shouldContinue = FALSE]

\* a Reset that leaves the break and continue flags as they are
ResetKeepingFlags(m) ==
  [NewEnclosedEnvironment(m, 0)
     EXCEPT !.stepIndex = 0, !.stepStack = <<>>,
            !.currentEnv = Len(m.envs) + 1, !.shouldReturn = FALSE,
            !.returnValue = 0]

\* Interpreter.Reset: the current environment is a new one without an outer
ResetOp(m) ==
  [NewEnclosedEnvironment(m, 0)
     EXCEPT !.stepIndex = 0, !.stepStack = <<>>,
            !.currentEnv = Len(m.envs) + 1, !.shouldReturn = FALSE,
            !.returnValue = 0, !.shouldBreak = FALSE,
            !.shouldContinue = FALSE]

\* Interpreter.EnableSingleStep / Interpreter.DisableSingleStep
EnableSingleStepOp(m) == [m EXCEPT !.stepMode = TRUE]
DisableSingleStepOp(m) == [m EXCEPT !.stepMode = FALSE]

(***************************************************************************)
(* Go's garbage collector: environments and values no pointer leads to     *)
(* are gone.  After a call the memory holds what the Interpreter and the   *)
(* last StepResult (address rv) point to, in allocation order.             *)
(***************************************************************************)
RECURSIVE EnvChain(_, _)
EnvChain(m, e) ==
  IF e = 0 THEN {} ELSE {e} \cup EnvChain(m, m.envs[e].outer)

Rank(S, x) == IF x = 0 THEN 0 ELSE Cardinality({y \in S : y <= x})

Collect(m, rv) ==
  LET liveEnvs == {m.globals} \cup EnvChain(m, m.currentEnv)
      liveVals == UNION {{m.envs[e].store[n] : n \in DOMAIN m.envs[e].store}
                           : e \in liveEnvs}
                    \cup ({m.returnValue, rv} \ {0})
      envAt(k) == CHOOSE e \in liveEnvs : Rank(liveEnvs, e) = k
      valAt(k) == CHOOSE v \in liveVals : Rank(liveVals, v) = k
  IN [m |-> [m EXCEPT
               !.envs = [k \in 1..Cardinality(liveEnvs) |->
                           [store |-> [n \in DOMAIN m.envs[envAt(k)].store |->
                                         Rank(liveVals,
                                              m.envs[envAt(k)].store[n])],
                            outer |-> Rank(liveEnvs, m.envs[envAt(k)].outer)]],
               !.heap = [k \in 1..Cardinality(liveVals) |-> m.heap[valAt(k)]],
               !.globals = Rank(liveEnvs, m.globals),
               !.currentEnv = Rank(liveEnvs, m.currentEnv),
               !.returnValue = Rank(liveVals, m.returnValue)],
      rv |-> Rank(liveVals, rv)]

\* the Interpreter fields of a machine
Interpreter(m) ==
  [program |-> m.program, globals |-> m.globals, functions |-> m.functions,
   stepMode |-> m.stepMode, stepIndex |-> m.stepIndex,
   stepStack |-> m.stepStack, currentEnv |-> m.currentEnv,
   shouldReturn |-> m.shouldReturn, returnValue |-> m.returnValue,
   shouldBreak |-> m.shouldBreak, shouldContinue |-> m.shouldContinue,
   envs |-> m.envs, heap |-> m.heap]


(***************************************************************************)
(* The explored source texts.                                              *)
(***************************************************************************)
\* main returns before its last statement
ReturnEarly ==
  <<"int", "main", "(", ")", "{", "putchar", "(", "1", ")", ";", "return",
    "1", ";", "putchar", "(", "2", ")", ";", "}">>

\* main runs off its end
RunsOffEnd ==
  <<"int", "main", "(", ")", "{", "int", "x", "=", "1", ";", "putchar", "(",
    "1", ")", ";", "x", "++", ";", "putchar", "(", "x", ")", ";", "}">>

\* the first statement of main fails
ErrorFirst ==
  <<"int", "main", "(", ")", "{", "int", "x", "=", "1", "/", "0", ";",
    "putchar", "(", "1", ")", ";", "return", "0", ";", "}">>

\* a break outside any loop
BreakAtTop ==
  <<"int", "main", "(", ")", "{", "putchar", "(", "1", ")", ";", "putchar",
    "(", "2", ")", ";", "break", ";", "putchar", "(", "3", ")", ";",
    "return", "2", ";", "}">>

\* the loop of the specification
ForSum ==
  <<"int", "main", "(", ")", "{", "int", "sum", "=", "0", ";", "int", "i",
    ";", "for", "(", "i", "=", "0", ";", "i", "<", "5", ";", "i", "++", ")",
    "{", "sum", "+=", "i", ";", "}", "return", "sum", ";", "}">>

\* the loop of testLoops
ForSumTest ==
  <<"int", "main", "(", ")", "{", "int", "sum", "=", "0", ";", "int", "i",
    ";", "for", "(", "i", "=", "1", ";", "i", "<=", "5", ";", "i", "++", ")",
    "{", "sum", "=", "sum", "+", "i", ";", "}", "printf", "(", "\"%d\\n\"",
    ",", "sum", ")", ";", "return", "sum", ";", "}">>

\* a = b = c
AssignChain ==
  <<"int", "main", "(", ")", "{", "int", "a", "=", "1", ";", "int", "b", "=",
    "2", ";", "int", "c", "=", "3", ";", "a", "=", "b", "=", "c", ";",
    "return", "a", "+", "b", ";", "}">>

\* a ? b : c ? d : e
TernaryChain ==
  <<"int", "main", "(", ")", "{", "return", "1", "?", "0", ":", "1", "?",
    "5", ":", "7", ";", "}">>

\* x OP 0 for the dividing operators: "/", "%", "/=", "%="
DivideByZero(op) ==
  <<"int", "main", "(", ")", "{", "int", "x", "=", "7", ";", "x", op, "0",
    ";", "return", "x", ";", "}">>

dividingOperators == {"/", "%", "/=", "%="}

\* an inner loop of three iterations that executes jump ("break" or
\* "continue") in its second iteration and writes 2 in the others
InnerLoop(kind, jump) ==
  IF kind = "while"
    THEN <<"int", "j", "=", "0", ";", "while", "(", "j", "<", "3", ")", "{",
           "j", "++", ";", "if", "(", "j", "==", "2", ")", "{", jump, ";",
           "}", "putchar", "(", "2", ")", ";", "}">>
    ELSE <<"int", "j", ";", "for", "(", "j", "=", "0", ";", "j", "<", "3",
           ";", "j", "++", ")", "{", "if", "(", "j", "==", "1", ")", "{",
           jump, ";", "}", "putchar", "(", "2", ")", ";", "}">>

\* an outer loop of three iterations, each writing 1 and running the inner
\* loop
NestedLoops(outer, inner, jump) ==
  IF outer = "while"
    THEN <<"int", "main", "(", ")", "{", "int", "i", "=", "0", ";", "while",
           "(", "i", "<", "3", ")", "{", "putchar", "(", "1", ")", ";">>
           \o InnerLoop(inner, jump)
           \o <<"i", "++", ";", "}", "return", "i", ";", "}">>
    ELSE <<"int", "main", "(", ")", "{", "int", "i", ";", "for", "(", "i",
           "=", "0", ";", "i", "<", "3", ";", "i", "++", ")", "{", "putchar",
           "(", "1", ")", ";">>
           \o InnerLoop(inner, jump)
           \o <<"}", "return", "0", ";", "}">>

loopKinds == {"while", "for"}
jumps == {"break", "continue"}

\* a program with every statement form that has required structural tokens
Structured ==
  <<"int", "main", "(", ")", "{", "int", "a", "=", "1", ";",
    "if", "(", "a", ">", "0", ")", "{", "a", "=", "(", "a", "+", "1", ")",
    ";", "}",
    "while", "(", "a", "<", "3", ")", "{", "a", "++", ";", "}",
    "for", "(", "a", "=", "0", ";", "a", "<", "2", ";", "a", "++", ")", "{",
    "putchar", "(", "a", ")", ";", "}",
    "return", "a", "?", "1", ":", "2", ";", "}">>

\* the positions in Structured of its required structural tokens: the
\* "(", ")" and "{" of the if, the while and the for, the ")" closing the
\* grouping and the call, the ":" of the ternary, the "}" closing each block
\* and the identifiers after the type keywords
structuralTokens ==
  {12, 16, 17, 28, 32, 33, 39, 50, 51, 24, 55, 62, 26, 37, 57, 65, 2, 7}

\* an index expression; its "]" is the 15th lexeme
Indexed ==
  <<"int", "main", "(", ")", "{", "int", "a", "=", "1", ";", "return", "a",
    "[", "0", "]", ";", "}">>

\* src without its k-th lexeme
Omit(src, k) == SubSeq(src, 1, k - 1) \o SubSeq(src, k + 1, Len(src))

\* the sources that omit one required structural token
Omissions ==
  {Omit(Structured, k) : k \in structuralTokens}
    \cup {Omit(Indexed, 15)}

\* a OP1 b OP2 c with the operands 1, 2 and 3
InfixPair(op1, op2) ==
  <<"int", "main", "(", ")", "{", "return", "1", op1, "2", op2, "3", ";",
    "}">>

\* the lexemes of the binary infix operators of the precedence table
infixOperators ==
  {"+", "-", "*", "/", "%", "==", "!=", "<", ">", "<=", ">=", "&&", "||",
   "&", "|", "^", "<<", ">>"}

\* the recursive functions of testRecursion and of the fibonacci test, called
\* on the literal n
Factorial(n) ==
  <<"int", "factorial", "(", "int", "n", ")", "{",
    "if", "(", "n", "<=", "1", ")", "{", "return", "1", ";", "}",
    "return", "n", "*", "factorial", "(", "n", "-", "1", ")", ";", "}",
    "int", "main", "(", ")", "{",
    "int", "result", "=", "factorial", "(", ToString(n), ")", ";",
    "printf", "(", "\"%d\\n\"", ",", "result", ")", ";",
    "return", "result", ";", "}">>

Fibonacci(n) ==
  <<"int", "fibonacci", "(", "int", "n", ")", "{",
    "if", "(", "n", "<=", "1", ")", "{", "return", "n", ";", "}",
    "return", "fibonacci", "(", "n", "-", "1", ")", "+",
    "fibonacci", "(", "n", "-", "2", ")", ";", "}",
    "int", "main", "(", ")", "{",
    "int", "result", "=", "fibonacci", "(", ToString(n), ")", ";",
    "printf", "(", "\"%d\\n\"", ",", "result", ")", ";",
    "return", "result", ";", "}">>

\* the programs whose life cycle, statements and syntax are explored
Programs ==
  {ReturnEarly, RunsOffEnd, ErrorFirst, BreakAtTop, ForSum, ForSumTest,
   AssignChain, TernaryChain, Structured, Indexed}
    \cup {DivideByZero(op) : op \in dividingOperators}
    \cup {NestedLoops(o, i, j) : o \in loopKinds, i \in loopKinds, j \in jumps}
    \cup Omissions

\* a program with a parameter list and argument lists of two
Declared ==
  <<"int", "f", "(", "int", "a", ",", "int", "b", ")", "{",
    "return", "a", "+", "b", ";", "}",
    "int", "main", "(", ")", "{",
    "return", "f", "(", "1", ",", "2", ")", "+", "f", "(", "3", ",", "4",
    ")", ";", "}">>

\* src with its k-th lexeme twice
Double(src, k) == SubSeq(src, 1, k) \o SubSeq(src, k, Len(src))

\* src, what is left of it when the input ends after any lexeme, when any
\* one lexeme is missing and when any one lexeme is there twice
Damaged(src) ==
  {src} \cup {SubSeq(src, 1, k) : k \in 0..Len(src)}
    \cup {Omit(src, k) : k \in 1..Len(src)}
    \cup {Double(src, k) : k \in 1..Len(src)}

\* the lexemes of the short token sequences
shortLexemes == {"int", "x", "(", ")", "{", "}", ";", "+"}

\* every sequence of at most MaxTokens of these lexemes
ShortSequences ==
  UNION {[1..n -> shortLexemes] : n \in 0..MaxTokens}

\* the token sequences given to the parser, well-formed or not
TokenSequences == Damaged(Structured) \cup Damaged(Declared) \cup ShortSequences

\* every pair of binary infix operators
InfixPairs == {InfixPair(op1, op2) : op1 \in infixOperators,
                                     op2 \in infixOperators}

\* the recursive programs on the explored arguments
Recursions ==
  {Factorial(n) : n \in 0..MaxFact} \cup {Fibonacci(n) : n \in 0..MaxFib}

\* a program without main
NoMain ==
  <<"int", "f", "(", ")", "{", "return", "1", ";", "}">>

\* main binds x after its first statement
BindLater ==
  <<"int", "main", "(", ")", "{", "putchar", "(", "1", ")", ";", "int", "x",
    "=", "1", ";", "x", "++", ";", "putchar", "(", "x", ")", ";", "}">>

\* a failing statement after a return
ReturnThenError ==
  <<"int", "main", "(", ")", "{", "putchar", "(", "1", ")", ";", "return",
    "1", ";", "int", "x", "=", "1", "/", "0", ";", "putchar", "(", "2", ")",
    ";", "}">>

\* a statement fails in a function called in an if in a loop
ErrorNested ==
  <<"int", "f", "(", ")", "{", "putchar", "(", "1", ")", ";", "int", "x",
    "=", "1", "/", "0", ";", "putchar", "(", "2", ")", ";", "return", "1",
    ";", "}",
    "int", "main", "(", ")", "{", "int", "i", ";",
    "for", "(", "i", "=", "0", ";", "i", "<", "2", ";", "i", "++", ")", "{",
    "if", "(", "1", ")", "{", "f", "(", ")", ";", "putchar", "(", "3", ")",
    ";", "}", "putchar", "(", "4", ")", ";", "}",
    "putchar", "(", "5", ")", ";", "return", "0", ";", "}">>

\* the programs whose stepping is explored
SteppedPrograms ==
  {NoMain, BindLater, ReturnThenError, ReturnEarly, RunsOffEnd, ErrorFirst,
   ErrorNested, BreakAtTop, ForSum}

\* x OP= 3 on x = 6
Compound(op) ==
  <<"int", "main", "(", ")", "{", "int", "x", "=", "6", ";", "x", op, "3",
    ";", "return", "x", ";", "}">>

\* the compound assignment operators of the Quick Reference
compoundOperators ==
  {"+=", "-=", "*=", "/=", "%=", "&=", "|=", "^=", "<<=", ">>="}

\* x OP 5 in the body of a for loop, x being declared in main
InnerAssign(op) ==
  <<"int", "main", "(", ")", "{", "int", "x", "=", "1", ";", "int", "i", ";",
    "for", "(", "i", "=", "0", ";", "i", "<", "1", ";", "i", "++", ")", "{",
    "x", op, "5", ";", "putchar", "(", "x", ")", ";", "}",
    "return", "x", ";", "}">>

\* the assignment operators explored in a for body
innerOperators == {"=", "+="}

\* y is bound from x ("y = x", "int y = x" or "int y = ++x"); y is then
\* written, x is incremented and y is written again
Copied(form) ==
  <<"int", "main", "(", ")", "{", "int", "x", "=", "1", ";">>
    \o (CASE form = "y = x" ->
               <<"int", "y", "=", "0", ";", "y", "=", "x", ";">>
           [] form = "int y = x" -> <<"int", "y", "=", "x", ";">>
           [] form = "int y = ++x" -> <<"int", "y", "=", "++", "x", ";">>)
    \o <<"putchar", "(", "y", ")", ";", "x", "++", ";", "putchar", "(", "y",
         ")", ";", "return", "y", ";", "}">>

copyForms == {"y = x", "int y = x", "int y = ++x"}

\* the parameter p of f is bound to the argument variable x; x is written,
\* f decrements p and x is written again
Passed ==
  <<"int", "f", "(", "int", "p", ")", "{", "p", "--", ";", "return", "p",
    ";", "}",
    "int", "main", "(", ")", "{", "int", "x", "=", "1", ";", "putchar", "(",
    "x", ")", ";", "f", "(", "x", ")", ";", "putchar", "(", "x", ")", ";",
    "return", "x", ";", "}">>

\* calls of a function that returns (f), of one that runs off its end (g)
\* and of one that fails (h), before and after main's own return
Calls ==
  <<"int", "f", "(", ")", "{", "return", "7", ";", "}",
    "int", "g", "(", ")", "{", "putchar", "(", "1", ")", ";", "}",
    "int", "h", "(", ")", "{", "putchar", "(", "2", ")", ";", "return", "1",
    "/", "0", ";", "}",
    "int", "main", "(", ")", "{", "int", "x", "=", "f", "(", ")", ";",
    "putchar", "(", "x", ")", ";", "g", "(", ")", ";", "putchar", "(", "3",
    ")", ";", "return", "x", ";", "h", "(", ")", ";", "g", "(", ")", ";",
    "f", "(", ")", ";", "}">>

\* main writes the value of a call of f.  With how = "value" or "bare", f
\* executes `return 9;` or `return;` in an if in a while in a for, having
\* written 1, 2 and 3; every statement after the return writes; with
\* how = "off", f writes 1 and runs off its end
Returning(how) ==
  (CASE how = "off" ->
          <<"int", "f", "(", "int", "n", ")", "{", "putchar", "(", "1", ")",
            ";", "}">>
     [] OTHER ->
          <<"int", "f", "(", "int", "n", ")", "{", "int", "i", ";",
            "for", "(", "i", "=", "0", ";", "i", "<", "3", ";", "i", "++",
            ")", "{", "putchar", "(", "1", ")", ";",
            "while", "(", "1", ")", "{", "putchar", "(", "2", ")", ";",
            "if", "(", "n", ")", "{", "putchar", "(", "3", ")", ";">>
            \o (IF how = "value" THEN <<"return", "9", ";">>
                                  ELSE <<"return", ";">>)
            \o <<"putchar", "(", "4", ")", ";", "}",
                 "putchar", "(", "5", ")", ";", "}",
                 "putchar", "(", "6", ")", ";", "}",
                 "putchar", "(", "7", ")", ";", "return", "8", ";", "}">>)
    \o <<"int", "main", "(", ")", "{", "int", "r", "=", "f", "(", "1", ")",
         ";", "putchar", "(", "r", ")", ";", "return", "r", ";", "}">>

returnForms == {"value", "bare", "off"}

\* the programs whose assignments, scopes and calls are explored
ScopedPrograms ==
  {Compound(op) : op \in compoundOperators}
    \cup {InnerAssign(op) : op \in innerOperators}
    \cup {Copied(form) : form \in copyForms}
    \cup {Passed, Calls}
    \cup {Returning(how) : how \in returnForms}

\* a for loop of three iterations that writes i and 7 in each and executes
\* jump (a sequence of lexemes, possibly empty) between the two in the
\* second
ForJump(jump) ==
  <<"int", "main", "(", ")", "{", "int", "i", ";",
    "for", "(", "i", "=", "0", ";", "i", "<", "3", ";", "i", "++", ")", "{",
    "putchar", "(", "i", ")", ";", "if", "(", "i", "==", "1", ")", "{">>
    \o jump
    \o <<"}", "putchar", "(", "7", ")", ";", "}", "return", "0", ";", "}">>

forJumps ==
  {<<>>, <<"break", ";">>, <<"continue", ";">>, <<"return", "5", ";">>}

\* y is first bound in a nested statement of the given kind and read after
\* that statement
Leak(kind) ==
  <<"int", "main", "(", ")", "{">>
    \o (CASE kind = "block" -> <<"{", "int", "y", "=", "3", ";", "}">>
           [] kind = "if" ->
                <<"if", "(", "1", ")", "{", "int", "y", "=", "3", ";", "}">>
           [] kind = "else" ->
                <<"if", "(", "0", ")", "{", "}", "else", "{", "int", "y",
                  "=", "3", ";", "}">>
           [] kind = "while" ->
                <<"int", "c", "=", "1", ";", "while", "(", "c", ")", "{",
                  "int", "y", "=", "3", ";", "c", "--", ";", "}">>
           [] kind = "for" ->
                <<"int", "i", ";", "for", "(", "i", "=", "0", ";", "i", "<",
                  "1", ";", "i", "++", ")", "{", "int", "y", "=", "3", ";",
                  "}">>)
    \o <<"putchar", "(", "1", ")", ";", "return", "y", ";", "}">>

nestedKinds == {"block", "if", "else", "while", "for"}

\* y is bound in the first iteration of a for loop and read in the second
LeakIteration ==
  <<"int", "main", "(", ")", "{", "int", "i", ";",
    "for", "(", "i", "=", "0", ";", "i", "<", "2", ";", "i", "++", ")", "{",
    "if", "(", "i", "==", "1", ")", "{", "return", "y", ";", "}",
    "int", "y", "=", "3", ";", "}", "return", "0", ";", "}">>

\* calls of a function f: f reads the caller's x ("caller"); f assigns to
\* its parameter and to the caller's x ("assign"); f is called with one
\* argument too many ("excess") and one too few ("missing"); the arguments
\* are expressions over the caller's x ("position")
CallScope(case) ==
  CASE case = "caller" ->
         <<"int", "f", "(", ")", "{", "return", "x", ";", "}",
           "int", "main", "(", ")", "{", "int", "x", "=", "1", ";",
           "return", "f", "(", ")", ";", "}">>
    [] case = "assign" ->
         <<"int", "f", "(", "int", "p", ")", "{", "p", "=", "5", ";",
           "x", "=", "6", ";", "p", "+=", "1", ";", "return", "p", ";", "}",
           "int", "main", "(", ")", "{", "int", "x", "=", "1", ";",
           "int", "r", "=", "f", "(", "x", ")", ";", "putchar", "(", "x",
           ")", ";", "return", "r", ";", "}">>
    [] case = "excess" ->
         <<"int", "f", "(", "int", "p", ")", "{", "return", "p", ";", "}",
           "int", "main", "(", ")", "{", "return", "f", "(", "4", ",", "9",
           ")", ";", "}">>
    [] case = "missing" ->
         <<"int", "f", "(", "int", "p", ",", "int", "q", ")", "{",
           "putchar", "(", "p", ")", ";", "return", "q", ";", "}",
           "int", "main", "(", ")", "{", "return", "f", "(", "4", ")", ";",
           "}">>
    [] case = "position" ->
         <<"int", "f", "(", "int", "p", ",", "int", "q", ")", "{",
           "return", "p", "-", "q", ";", "}",
           "int", "main", "(", ")", "{", "int", "x", "=", "7", ";",
           "return", "f", "(", "x", "+", "2", ",", "3", ")", ";", "}">>

callCases == {"caller", "assign", "excess", "missing", "position"}

\* the expression expr (a sequence of lexemes) is evaluated on x = 4, its
\* value is written and x is returned
Bump(expr) ==
  <<"int", "main", "(", ")", "{", "int", "x", "=", "4", ";", "int", "r", "=">>
    \o expr
    \o <<";", "putchar", "(", "r", ")", ";", "return", "x", ";", "}">>

\* ++ and -- on operands that are not names, and on the name x
bumpsOfOthers ==
  {<<"++", "5">>, <<"--", "5">>, <<"5", "++">>, <<"5", "--">>,
   <<"++", "(", "x", "+", "1", ")">>, <<"--", "(", "x", "+", "1", ")">>,
   <<"(", "x", "+", "1", ")", "++">>, <<"(", "x", "+", "1", ")", "--">>}
bumpsOfName ==
  {<<"++", "x">>, <<"--", "x">>, <<"x", "++">>, <<"x", "--">>}

\* a for loop with the given header (a sequence of lexemes) and no
\* condition, whose body increments i, writes it and breaks at 3
ForEver(header) ==
  <<"int", "main", "(", ")", "{", "int", "i", "=", "0", ";", "for", "(">>
    \o header
    \o <<")", "{", "i", "++", ";", "putchar", "(", "i", ")", ";",
         "if", "(", "i", "==", "3", ")", "{", "break", ";", "}", "}",
         "return", "0", ";", "}">>

\* for (;;) and for (init; ; post)
openHeaders == {<<";", ";">>, <<"i", "=", "0", ";", ";", "i", "++">>}

\* g executes jump ("break" or "continue") outside any loop; main calls g
\* in a loop of two iterations before it writes i, and once more after the
\* loop before it writes 5
CalleeJump(jump) ==
  <<"int", "g", "(", ")", "{", jump, ";", "}",
    "int", "main", "(", ")", "{", "int", "i", ";",
    "for", "(", "i", "=", "0", ";", "i", "<", "2", ";", "i", "++", ")", "{",
    "g", "(", ")", ";", "putchar", "(", "i", ")", ";", "}",
    "g", "(", ")", ";", "putchar", "(", "5", ")", ";", "return", "0", ";",
    "}">>

\* main is declared by a prototype only
PrototypeMain == <<"int", "main", "(", ")", ";">>

\* main calls g, which is declared by a prototype only
PrototypeCall ==
  <<"int", "g", "(", ")", ";",
    "int", "main", "(", ")", "{", "putchar", "(", "1", ")", ";",
    "int", "r", "=", "g", "(", ")", ";", "putchar", "(", "2", ")", ";",
    "return", "r", ";", "}">>

\* g is declared at top level only and read in f and in main
GlobalRead ==
  <<"int", "g", "=", "5", ";",
    "int", "f", "(", ")", "{", "putchar", "(", "2", ")", ";", "return", "g",
    ";", "}",
    "int", "main", "(", ")", "{", "int", "x", "=", "1", ";", "putchar", "(",
    "x", ")", ";", "f", "(", ")", ";", "return", "g", ";", "}">>

\* the programs whose control flow is explored
ControlPrograms ==
  {ForJump(jump) : jump \in forJumps} \cup {ForSum}
    \cup {Leak(kind) : kind \in nestedKinds} \cup {LeakIteration}
    \cup {CallScope(case) : case \in callCases}
    \cup {Bump(expr) : expr \in bumpsOfOthers \cup bumpsOfName}
    \cup {ForEver(header) : header \in openHeaders}
    \cup {Compound("|="), Indexed}
    \cup {CalleeJump(jump) : jump \in jumps}
    \cup {PrototypeMain, PrototypeCall, GlobalRead}

(***************************************************************************)
(* The state machine: a host constructs a Cint from a source text with New *)
(* and then calls Run, Step, Reset, EnableSingleStep and DisableSingleStep *)
(* in any order.                                                           *)
(*                                                                         *)
(*   source    the source text given to New                                *)
(*   cint      the Interpreter of the Cint New returned (Nil before New    *)
(*             and when New returned no Cint)                              *)
(*   err       the error New returned (Nil for the nil error)              *)
(*   lastOp    the operation called last ("none" before New)               *)
(*   result    what the last call returned: for Run the error and the      *)
(*             value of main's body, for Step the StepResult               *)
(*   stdout    what the last call wrote to the standard output             *)
(*   trace     the evaluation events of the last call                      *)
(*   fault     "panic" once a call has ended in a Go run-time panic, which *)
(*             ends the host process; "hang" once a call has not returned  *)
(*             within the explored number of transfers                     *)
(*                                                                         *)
(* History variables, which no operation reads:                            *)
(*   doneSeen  a Step has returned Done = true since New or the last Reset *)
(*   round     progress through "Run on an instance as New or Reset left   *)
(*             it (1), then Reset (2), then Run (3)"; 0 outside of it      *)
(*   firstRun  in a round, the result and the output of its first Run      *)
(*   stepping  the host loop "Step until Done" on the new instance: its    *)
(*             phase and the output of its steps so far                    *)
(*   enabledSteps  the number of Step calls in step mode since New or the  *)
(*             last Reset, counted up to MaxSteps                          *)
(*   lastReset  whether the current scope the last Reset discarded held    *)
(*             "bindings" or was "empty"; "none" when Reset has not been   *)
(*             called or Run has been called since                         *)
(***************************************************************************)
VARIABLES source, cint, err, lastOp, result, stdout, trace, fault,
          doneSeen, round, firstRun, stepping, enabledSteps, lastReset

vars == <<source, cint, err, lastOp, result, stdout, trace, fault,
          doneSeen, round, firstRun, stepping, enabledSteps, lastReset>>

\* the value a pointer points to (Nil for the nil pointer)
Deref(m, a) == IF a = 0 THEN Nil ELSE m.heap[a]

\* how a call of the evaluator ended
Fault(m) ==
  CASE m.ctl.op # "exit" -> "hang"
    [] m.ctl.err = Panic -> "panic"
    [] OTHER -> "none"

\* the instance is as New or Reset left it (up to the step-mode switch)
Fresh(i) ==
  /\ i.stepIndex = 0 /\ Len(i.stepStack) = 0
  /\ ~i.shouldReturn /\ i.returnValue = 0
  /\ ~i.shouldBreak /\ ~i.shouldContinue

\* there is an instance and the host process is alive
Alive == cint # Nil /\ fault = "none"

NotStepping == [phase |-> "off", out |-> <<>>]

InitOn(sources) ==
  /\ source \in sources
  /\ cint = Nil
  /\ err = Nil
  /\ lastOp = "none"
  /\ result = Nil
  /\ stdout = <<>>
  /\ trace = <<>>
  /\ fault = "none"
  /\ doneSeen = FALSE
  /\ round = 0
  /\ firstRun = Nil
  /\ stepping = [phase |-> "fresh", out |-> <<>>]
  /\ enabledSteps = 0
  /\ lastReset = "none"

Init == InitOn(Programs)

\* cint.New(source), which returned n
Constructed(n) ==
  /\ cint' = n.cint
  /\ err' = n.err
  /\ fault' = n.fault

New ==
  /\ lastOp = "none"
  /\ Constructed(NewOp(source))
  /\ lastOp' = "New"
  /\ UNCHANGED <<source, result, stdout, trace, doneSeen, round, firstRun,
                 stepping, enabledSteps, lastReset>>

\* what the host has of a Run that ended as r: its error and, for the
\* comparison of runs, the value main's body yielded
RunReturned(r) ==
  IF Fault(r.m) = "none"
    THEN [err |-> r.err, ret |-> Deref(r.m, r.ret)] ELSE Nil

\* Cint.Run, which ended as r
Ran(r) ==
  /\ fault' = Fault(r.m)
  /\ cint' = IF Fault(r.m) = "none"
               THEN Interpreter(Collect(r.m, 0).m) ELSE cint
  /\ result' = RunReturned(r)
  /\ stdout' = r.m.stdout
  /\ trace' = r.m.trace
  /\ round' = CASE round = 2 -> 3
                 [] Fresh(cint) -> 1
                 [] OTHER -> 0
  /\ firstRun' = CASE round = 2 -> firstRun
                    [] Fresh(cint) ->
                         [result |-> RunReturned(r), stdout |-> r.m.stdout]
                    [] OTHER -> Nil

Run ==
  /\ Alive
  /\ Ran(RunOp(Machine(cint)))
  /\ lastOp' = "Run"
  /\ stepping' = NotStepping
  /\ lastReset' = "none"
  /\ UNCHANGED <<source, err, doneSeen, enabledSteps>>

\* Cint.Step, which ended as r
Stepped(r) ==
  /\ fault' = Fault(r.m)
  /\ cint' = IF Fault(r.m) = "none"
               THEN Interpreter(Collect(r.m, r.result.ReturnVal).m) ELSE cint
  /\ result' = IF Fault(r.m) = "none"
                 THEN [r.result EXCEPT
                         !.ReturnVal = Collect(r.m, r.result.ReturnVal).rv]
                 ELSE Nil
  /\ stdout' = r.m.stdout
  /\ trace' = r.m.trace
  /\ doneSeen' = (doneSeen \/ (Fault(r.m) = "none" /\ r.result.Done))
  /\ stepping' =
       CASE Fault(r.m) = "none" /\ cint.stepMode
              /\ stepping.phase \in {"fresh", "stepping"} ->
              [phase |-> IF r.result.Done THEN "done" ELSE "stepping",
               out |-> stepping.out \o r.m.stdout]
         [] OTHER -> NotStepping

Step ==
  /\ Alive
  /\ Stepped(StepOp(Machine(cint)))
  /\ lastOp' = "Step"
  /\ round' = 0
  /\ firstRun' = Nil
  /\ enabledSteps' = CASE cint.stepMode /\ enabledSteps < MaxSteps ->
                            enabledSteps + 1
                       [] OTHER -> enabledSteps
  /\ UNCHANGED <<source, err, lastReset>>

\* Cint.Reset
Reset ==
  /\ Alive
  /\ cint' = Interpreter(Collect(ResetOp(Machine(cint)), 0).m)
  /\ lastOp' = "Reset"
  /\ result' = Nil
  /\ stdout' = <<>>
  /\ trace' = <<>>
  /\ doneSeen' = FALSE
  /\ round' = IF round \in {1, 3} THEN 2 ELSE 0
  /\ firstRun' = IF round \in {1, 3} THEN firstRun ELSE Nil
  /\ stepping' = NotStepping
  /\ enabledSteps' = 0
  /\ lastReset' = CASE cint.currentEnv # 0
                         /\ DOMAIN cint.envs[cint.currentEnv].store # {} ->
                         "bindings"
                    [] OTHER -> "empty"
  /\ UNCHANGED <<source, err, fault>>

\* Cint.EnableSingleStep
EnableSingleStep ==
  /\ Alive
  /\ cint' = EnableSingleStepOp(cint)
  /\ lastOp' = "EnableSingleStep"
  /\ result' = Nil
  /\ stdout' = <<>>
  /\ trace' = <<>>
  /\ UNCHANGED <<source, err, fault, doneSeen, round, firstRun, stepping,
                 enabledSteps, lastReset>>

\* Cint.DisableSingleStep
DisableSingleStep ==
  /\ Alive
  /\ cint' = DisableSingleStepOp(cint)
  /\ lastOp' = "DisableSingleStep"
  /\ result' = Nil
  /\ stdout' = <<>>
  /\ trace' = <<>>
  /\ stepping' = NotStepping
  /\ UNCHANGED <<source, err, fault, doneSeen, round, firstRun,
                 enabledSteps, lastReset>>

Next ==
  \/ New
  \/ Run
  \/ Step
  \/ Reset
  \/ EnableSingleStep
  \/ DisableSingleStep

Spec == Init /\ [][Next]_vars

\* the same host on the programs a OP1 b OP2 c
InitPrecedence == InitOn(InfixPairs)
SpecPrecedence == InitPrecedence /\ [][Next]_vars

\* the same host on the stepped programs
InitStepping == InitOn(SteppedPrograms)
SpecStepping == InitStepping /\ [][Next]_vars

\* the same host on the programs of assignments, scopes and calls
InitScopes == InitOn(ScopedPrograms)
SpecScopes == InitScopes /\ [][Next]_vars

\* the same host on the programs of control flow
InitControl == InitOn(ControlPrograms)
SpecControl == InitControl /\ [][Next]_vars

\* the life cycle on token sequences of every shape
InitParsing == InitOn(TokenSequences)
SpecParsing == InitParsing /\ [][Next]_vars

\* the same host on the recursive programs
InitRecursion == InitOn(Recursions)
SpecRecursion == InitRecursion /\ [][Next]_vars

(***************************************************************************)
(* Properties.                                                             *)
(***************************************************************************)
\* the last call was a Run on an instance as New or Reset left it
RanOnFresh == lastOp = "Run" /\ round \in {1, 3}

\* the bindings of the current scope, by value
Bindings(i) ==
  [n \in DOMAIN i.envs[i.currentEnv].store |->
     i.heap[i.envs[i.currentEnv].store[n]]]

\* the integers a call wrote, in order
Written(out) == [k \in DOMAIN out |-> out[k].args[1]]

\* the number of loop bodies a call executed
Bodies(tr) == Cardinality({k \in DOMAIN tr : tr[k] = "body"})

\* the statement at position k of main's body, main being the first
\* top-level statement of the program
MainStatement(k) == cint.program.Statements[1].Body.Statements[k]

\* C1: once a Step has returned Done = true, every later Step in step mode
\* without a Reset in between returns Done = true and executes nothing: no
\* evaluation event, and the interpreter (bindings, step index, flags) is
\* unchanged.
C1_DoneIsFinal ==
  [][(doneSeen /\ cint.stepMode /\ lastOp' = "Step") =>
       (/\ fault' = "none"
        /\ result'.Done
        /\ trace' = <<>>
        /\ cint' = cint)]_vars

\* C2: when the host loop "Step until Done" on a new instance of a program
\* whose main has a body has ended, the output of its steps, the bindings of
\* main's scope and the return value are those of one Run on a new instance
\* of the same program.
C2_StepRunEquivalence ==
  (/\ lastOp = "Step"
   /\ stepping.phase = "done"
   /\ "main" \in DOMAIN cint.functions
   /\ cint.functions["main"].Body.kind # "nilptr") =>
    LET r == RunOp(Machine(NewInterpreter(cint.program)))
    IN /\ Fault(r.m) = "none"
       /\ stepping.out = r.m.stdout
       /\ Bindings(cint) = Bindings(r.m)
       /\ Deref(cint, result.ReturnVal) = Deref(r.m, r.ret)

\* C3: after a Run on an instance as New or Reset left it and then a Reset,
\* a second Run returns without a fault and yields the output, the error and
\* the return value of the first.
C3_RunResetRun ==
  (lastOp = "Run" /\ round = 3) =>
    (/\ fault = "none"
     /\ result = firstRun.result
     /\ stdout = firstRun.stdout)

\* C3, reached: a second Run after Run and Reset that wrote output and left
\* the break flag set, as the first did
C3_SecondRunReached ==
  /\ lastOp = "Run" /\ round = 3 /\ fault = "none"
  /\ Len(stdout) > 0
  /\ source = BreakAtTop
  /\ cint.shouldBreak

\* C4: a Run of the summing loops executes the loop body exactly 5 times and
\* main's return of sum yields 10 (15 in the form of testLoops).
C4_ForSum ==
  (RanOnFresh /\ source \in {ForSum, ForSumTest}) =>
    (/\ fault = "none"
     /\ result.err = ""
     /\ Bodies(trace) = 5
     /\ result.ret.Int = IF source = ForSum THEN 10 ELSE 15)

\* C5: when a Run or a Step has executed x / 0, x % 0, x /= 0 or x %= 0, the
\* call has returned (no fault) with an error and x still holds 7.
C5_DivideByZero ==
  (/\ source \in {DivideByZero(op) : op \in dividingOperators}
   /\ lastOp \in {"Run", "Step"}
   /\ \E k \in DOMAIN trace : trace[k] = "ExpressionStatement") =>
    (/\ fault = "none"
     /\ (IF lastOp = "Run" THEN result.err ELSE result.Error) # ""
     /\ Bindings(cint)["x"].Int = 7)

\* C6: a ? b : c ? d : e parses as a ? b : (c ? d : e) and a = b = c as
\* a = (b = c), and a Run of the latter succeeds and leaves a and b holding
\* the value of c.
C6_RightAssociative ==
  /\ (source = TernaryChain /\ lastOp # "none") =>
       (/\ cint # Nil
        /\ MainStatement(1).ReturnValue.kind = "ConditionalExpression"
        /\ MainStatement(1).ReturnValue.Condition.kind = "IntegerLiteral"
        /\ MainStatement(1).ReturnValue.Alternative.kind
             = "ConditionalExpression")
  /\ (source = AssignChain /\ lastOp # "none") =>
       (/\ cint # Nil
        /\ MainStatement(4).Expression.kind = "AssignmentExpression"
        /\ MainStatement(4).Expression.Left.kind = "Identifier"
        /\ MainStatement(4).Expression.Right.kind = "AssignmentExpression")
  /\ (source = AssignChain /\ RanOnFresh) =>
       (/\ fault = "none"
        /\ result.err = ""
        /\ Bindings(cint)["a"].Int = 3
        /\ Bindings(cint)["b"].Int = 3)

\* n! and the n-th Fibonacci number
RECURSIVE Fact(_)
Fact(n) == IF n <= 1 THEN 1 ELSE n * Fact(n - 1)

RECURSIVE Fib(_)
Fib(n) == IF n <= 1 THEN n ELSE Fib(n - 1) + Fib(n - 2)

\* what main writes and returns when its call yields v
Yields(v) ==
  /\ fault = "none"
  /\ result = [err |-> "", ret |-> Value("int", v, "")]
  /\ stdout = <<[fn |-> "printf", format |-> "%d\n", args |-> <<v>>]>>

\* C7: a Run of the factorial program on n yields n!, and a Run of the
\* fibonacci program on n yields the n-th Fibonacci number.
C7_Recursion ==
  /\ \A n \in 0..MaxFact : (RanOnFresh /\ source = Factorial(n)) =>
                             Yields(Fact(n))
  /\ \A n \in 0..MaxFib : (RanOnFresh /\ source = Fibonacci(n)) =>
                            Yields(Fib(n))

\* C7, reached: factorial(6) has yielded 720
C7_FactorialReached ==
  /\ RanOnFresh /\ source = Factorial(6)
  /\ fault = "none" /\ result.ret.Int = 720

\* what the nested loops write: three outer iterations, the inner loop being
\* cut short by break after one write, or skipping one of its three writes
NestedOutput(jump) ==
  LET inner == IF jump = "break" THEN <<2>> ELSE <<2, 2>>
  IN <<1>> \o inner \o <<1>> \o inner \o <<1>> \o inner

\* C8: a break or continue in the inner loop of two nested loops ends only
\* the inner loop, or only its current iteration: a Run writes what three
\* full outer iterations write and returns without error.
C8_InnerJump ==
  \A o \in loopKinds, i \in loopKinds, j \in jumps :
    (RanOnFresh /\ source = NestedLoops(o, i, j)) =>
      (/\ fault = "none"
       /\ result.err = ""
       /\ Written(stdout) = NestedOutput(j))

\* C8, reached: an inner while loop ended by break inside an outer while loop
C8_InnerBreakReached ==
  /\ RanOnFresh /\ source = NestedLoops("while", "while", "break")
  /\ fault = "none"
  /\ Len(stdout) = 6
  /\ \E k \in DOMAIN trace : trace[k] = "BreakStatement"

\* the tree of 1 OP1 2 OP2 3 the precedence table asks for
Literal(n) == [kind |-> "IntegerLiteral", Value |-> n]
Infix(left, op, right) ==
  [kind |-> "InfixExpression", Left |-> left, Operator |-> op,
   Right |-> right]
InfixTree(op1, op2) ==
  IF precedences[symbols[op2]] > precedences[symbols[op1]]
    THEN Infix(Literal(1), op1, Infix(Literal(2), op2, Literal(3)))
    ELSE Infix(Infix(Literal(1), op1, Literal(2)), op2, Literal(3))

\* C9: for every pair of binary infix operators, a OP1 b OP2 c parses without
\* diagnostic as a OP1 (b OP2 c) when OP2 has strictly higher precedence than
\* OP1 and as (a OP1 b) OP2 c otherwise; 1 - 2 - 3 evaluates to -4 and
\* 1 + 2 * 3 to 7.
C9_Precedence ==
  /\ \A op1 \in infixOperators, op2 \in infixOperators :
       (source = InfixPair(op1, op2) /\ lastOp # "none") =>
         (/\ cint # Nil
          /\ MainStatement(1).ReturnValue = InfixTree(op1, op2))
  /\ (RanOnFresh /\ source = InfixPair("-", "-")) =>
       (fault = "none" /\ result = [err |-> "", ret |-> Value("int", -4, "")])
  /\ (RanOnFresh /\ source = InfixPair("+", "*")) =>
       (fault = "none" /\ result = [err |-> "", ret |-> Value("int", 7, "")])

\* C9, reached: 1 - 2 - 3 has been parsed as (1 - 2) - 3 and evaluated
C9_LeftAssociativeReached ==
  /\ RanOnFresh /\ source = InfixPair("-", "-")
  /\ MainStatement(1).ReturnValue.Left.kind = "InfixExpression"
  /\ result.ret.Int = -4

\* C10: for a source that omits one required structural token, New returns a
\* ParseError with at least one diagnostic and no Cint.
C10_MissingToken ==
  (source \in Omissions /\ lastOp # "none") =>
    (/\ cint = Nil
     /\ err # Nil
     /\ Len(err.Errors) > 0)

\* the program has no function named main
NoMainFunction == "main" \notin DOMAIN cint.functions

\* C11: a Step with step mode disabled returns an outcome with an error,
\* executes nothing and leaves the interpreter (step index, queue, scopes,
\* flags) unchanged; with no function named main, Run returns an error,
\* Step in step mode returns an outcome with an error and Done = true, and
\* both execute nothing and change nothing.
C11_FailedPrecondition ==
  [][/\ (lastOp' = "Step" /\ ~cint.stepMode) =>
          (/\ fault' = "none"
           /\ result'.Error # ""
           /\ cint' = cint
           /\ trace' = <<>>
           /\ stdout' = <<>>)
     /\ (lastOp' = "Run" /\ NoMainFunction) =>
          (/\ fault' = "none"
           /\ result'.err # ""
           /\ cint' = cint
           /\ trace' = <<>>
           /\ stdout' = <<>>)
     /\ (lastOp' = "Step" /\ cint.stepMode /\ NoMainFunction) =>
          (/\ fault' = "none"
           /\ result'.Error # ""
           /\ result'.Done
           /\ cint' = cint
           /\ trace' = <<>>
           /\ stdout' = <<>>)]_vars

\* C11, reached: a Step with step mode disabled between the statements of
\* main, which returned the error and left the step index where it was
C11_DisabledStepReached ==
  /\ lastOp = "Step"
  /\ ~cint.stepMode
  /\ result.Error = "single-step mode not enabled"
  /\ cint.stepIndex > 0
  /\ cint.stepIndex < Len(cint.stepStack)

\* the top-level statements of main's body
MainBody == cint.functions["main"].Body.Statements

\* the first Step in step mode on a new instance of program
FirstStep(program) ==
  StepOp(Machine(EnableSingleStepOp(NewInterpreter(program))))

\* C12: Reset leaves the step index 0, the step queue empty and the
\* should-return, return-value, should-break and should-continue flags
\* cleared, and leaves the program, the function table and the step-mode
\* switch as they were; the first Step in step mode after a Reset executes
\* main's first top-level statement and leaves the interpreter, the outcome,
\* the output and the evaluation events that the first Step on a new
\* instance of the program leaves, so its scope holds no earlier binding.
C12_Reset ==
  [][/\ (lastOp' = "Reset") =>
          (/\ cint'.stepIndex = 0
           /\ cint'.stepStack = <<>>
           /\ ~cint'.shouldReturn
           /\ cint'.returnValue = 0
           /\ ~cint'.shouldBreak
           /\ ~cint'.shouldContinue
           /\ cint'.program = cint.program
           /\ cint'.functions = cint.functions
           /\ cint'.stepMode = cint.stepMode)
     /\ (/\ lastOp' = "Step"
         /\ lastReset # "none"
         /\ enabledSteps = 0
         /\ cint.stepMode
         /\ ~NoMainFunction
         /\ cint.functions["main"].Body.kind # "nilptr"
         /\ Len(MainBody) > 0) =>
          (/\ fault' = Fault(FirstStep(cint.program).m)
           /\ fault' = "none" =>
                (/\ result'.Statement = MainBody[1]
                 /\ cint'.stepIndex = 1
                 /\ cint' = Interpreter(Collect(FirstStep(cint.program).m,
                              FirstStep(cint.program).result.ReturnVal).m)
                 /\ result'.Done = FirstStep(cint.program).result.Done
                 /\ result'.Returned = FirstStep(cint.program).result.Returned
                 /\ result'.Error = FirstStep(cint.program).result.Error
                 /\ stdout' = FirstStep(cint.program).m.stdout
                 /\ trace' = FirstStep(cint.program).m.trace))]_vars

\* C12, reached: after a Reset that discarded a scope with bindings, the
\* first Step in step mode has executed main's first statement, which binds
\* nothing, and the current scope is empty
C12_StepAfterResetReached ==
  /\ source = BindLater
  /\ lastOp = "Step"
  /\ cint.stepMode
  /\ lastReset = "bindings"
  /\ enabledSteps = 1
  /\ result.Statement = MainBody[1]
  /\ cint.stepIndex = 1
  /\ DOMAIN Bindings(cint) = {}

\* the evaluation events of the last call include the execution of a
\* statement of the given kind
Fired(kind) == \E k \in DOMAIN trace : trace[k] = kind

\* C13: in the outcome of a Step that executed a statement, Returned (Break,
\* Continue) is true only if a return (break, continue) statement was
\* executed during that Step, and Done is true only if the queue is
\* exhausted or a return statement was executed during that Step.
C13_FlagsOfThisStep ==
  (lastOp = "Step" /\ fault = "none" /\ result.Statement # Nil) =>
    (/\ result.Returned => Fired("ReturnStatement")
     /\ result.Break => Fired("BreakStatement")
     /\ result.Continue => Fired("ContinueStatement")
     /\ result.Done => (\/ cint.stepIndex >= Len(cint.stepStack)
                        \/ Fired("ReturnStatement")))

\* the last call was a Step that executed a statement which raised a
\* runtime error and is not the last of the queue
FailedBeforeLast ==
  /\ lastOp = "Step"
  /\ fault = "none"
  /\ result.Statement # Nil
  /\ result.Error # ""
  /\ cint.stepIndex < Len(cint.stepStack)

\* C14: the outcome of a Step whose statement raised a runtime error and is
\* not the last of the queue has Done = false, and the next Step in step
\* mode executes the following top-level statement; a Run that returns a
\* runtime error has executed nothing after the failing statement: on
\* ErrorFirst it wrote nothing, on ErrorNested (the failure is in a function
\* called in an if in a for loop) it wrote only the 1 that precedes the
\* failure.
C14_ErrorDoesNotEnd ==
  [][/\ FailedBeforeLast' => ~result'.Done
     /\ (FailedBeforeLast /\ cint.stepMode /\ lastOp' = "Step"
           /\ fault' = "none") =>
          (/\ result'.Statement = cint.stepStack[cint.stepIndex + 1]
           /\ cint'.stepIndex = cint.stepIndex + 1)
     /\ (lastOp' = "Run" /\ source = ErrorFirst) =>
          (/\ fault' = "none"
           /\ result'.err = "division by zero"
           /\ stdout' = <<>>)
     /\ (lastOp' = "Run" /\ source = ErrorNested) =>
          (/\ fault' = "none"
           /\ result'.err = "division by zero"
           /\ Written(stdout') = <<1>>)]_vars

\* a return statement occurs in statement s outside of any call
RECURSIVE HasReturn(_)
HasReturn(s) ==
  CASE s.kind = "ReturnStatement" -> TRUE
    [] s.kind = "BlockStatement" ->
         \E k \in DOMAIN s.Statements : HasReturn(s.Statements[k])
    [] s.kind = "IfStatement" ->
         HasReturn(s.Consequence) \/ HasReturn(s.Alternative)
    [] s.kind \in {"WhileStatement", "ForStatement"} -> HasReturn(s.Body)
    [] OTHER -> FALSE

\* main has a body of at least one statement and no return statement in a
\* statement before the last one
ReturnsLast ==
  /\ ~NoMainFunction
  /\ cint.functions["main"].Body.kind # "nilptr"
  /\ Len(MainBody) >= 1
  /\ \A k \in 1..(Len(MainBody) - 1) : ~HasReturn(MainBody[k])

\* C15: for a main of n >= 1 top-level statements with no return before the
\* last one, the k-th Step in step mode since New or Reset (k <= n) executes
\* the k-th top-level statement and only it (the step index is k and the
\* first evaluation event is that statement), completely (the for statement
\* of ForSum runs its 5 iterations in one Step), and its outcome has
\* Done = false for k < n and Done = true for k = n.
C15_KthStep ==
  (/\ lastOp = "Step"
   /\ cint.stepMode
   /\ fault = "none"
   /\ ReturnsLast
   /\ enabledSteps >= 1
   /\ enabledSteps < MaxSteps
   /\ enabledSteps <= Len(MainBody)) =>
    (/\ result.Statement = MainBody[enabledSteps]
     /\ cint.stepIndex = enabledSteps
     /\ trace # <<>>
     /\ trace[1] = MainBody[enabledSteps].kind
     /\ (source = ForSum /\ enabledSteps = 3) => Bodies(trace) = 5
     /\ result.Done = (enabledSteps = Len(MainBody)))

\* 6 OP 3 for the operator OP of each compound assignment operator OP=
compoundValue ==
  ("+=" :> 9) @@ ("-=" :> 3) @@ ("*=" :> 18) @@ ("/=" :> 2) @@ ("%=" :> 0) @@
  ("&=" :> 2) @@ ("|=" :> 7) @@ ("^=" :> 5) @@ ("<<=" :> 48) @@ (">>=" :> 0)

\* C16: for each compound assignment operator OP=, New of
\* `int main() { int x = 6; x OP= 3; return x; }` returns no diagnostic and
\* the second statement of main is the one assignment expression x OP= 3;
\* Run returns no error and x holds 6 OP 3.
C16_CompoundAssignment ==
  (source \in {Compound(op) : op \in compoundOperators}) =>
    (/\ lastOp # "none" =>
          (/\ err = Nil
           /\ Len(MainBody) = 3
           /\ MainBody[2] =
                [kind |-> "ExpressionStatement",
                 Expression |->
                   [kind |-> "AssignmentExpression",
                    Left |-> [kind |-> "Identifier", Value |-> "x"],
                    Operator |-> source[12],
                    Right |-> [kind |-> "IntegerLiteral", Value |-> 3]]])
     /\ lastOp = "Run" =>
          (/\ fault = "none"
           /\ result.err = ""
           /\ result.ret.Int = compoundValue[source[12]]))

\* what x holds after x OP 5 on x = 1
innerValue == ("=" :> 5) @@ ("+=" :> 6)

\* C17: x = 5 and x += 5 executed in the scope of a for loop, x being bound
\* only in the enclosing scope of main, update main's binding: the body
\* reads the new value, and after the loop main's scope binds x to it and
\* `return x` yields it.
C17_AssignEnclosing ==
  (source \in {InnerAssign(op) : op \in innerOperators} /\ lastOp = "Run") =>
    (/\ fault = "none"
     /\ result.err = ""
     /\ Written(stdout) = <<innerValue[source[29]]>>
     /\ Bindings(cint)["x"].Int = innerValue[source[29]]
     /\ result.ret.Int = innerValue[source[29]])

\* C18: after y is bound from x by `y = x`, `int y = x` or `int y = ++x`,
\* x++ does not change the value read through y, and after the parameter p
\* of f is bound to the argument variable x, p-- in f does not change the
\* value read through x: the value written before the ++ or -- and the
\* value written after it are the same.
C18_NoSharedState ==
  (source \in {Copied(form) : form \in copyForms} \cup {Passed}
     /\ lastOp = "Run") =>
    (/\ fault = "none"
     /\ result.err = ""
     /\ Len(stdout) = 2
     /\ Written(stdout)[1] = Written(stdout)[2])

\* statement s is a call of a user-defined function, as an expression
\* statement or as the initial value of a declaration
CallsFunction(s) ==
  \/ /\ s.kind = "ExpressionStatement"
     /\ s.Expression.kind = "CallExpression"
     /\ s.Expression.Function.Value \in DOMAIN cint.functions
  \/ /\ s.kind = "VarDecl"
     /\ s.Value.kind = "CallExpression"
     /\ s.Value.Function.Value \in DOMAIN cint.functions

\* C19: a Step whose statement is a call of a user-defined function leaves
\* the should-return flag and the return value the evaluator holds (the
\* reference to a Value, or nil) as they were before the Step, whether the
\* callee returned, ran off its end or failed; and Run of
\* Calls executes the statements of main that follow the calls of f and g up
\* to main's own return: it writes 7, 1, 3 and yields 7.
C19_CallKeepsReturnState ==
  [][/\ (/\ lastOp' = "Step"
         /\ fault' = "none"
         /\ result'.Statement # Nil
         /\ CallsFunction(result'.Statement)) =>
          (/\ cint'.shouldReturn = cint.shouldReturn
           /\ StepOp(Machine(cint)).m.returnValue = cint.returnValue)
     /\ (lastOp' = "Run" /\ source = Calls) =>
          (/\ fault' = "none"
           /\ result'.err = ""
           /\ Written(stdout') = <<7, 1, 3>>
           /\ result'.ret.Int = 7)]_vars

\* C19, reached: with main's return pending, a Step has called h, which
\* failed, and the should-return flag and the return value 7 are still held
C19_FailedCalleeReached ==
  /\ source = Calls
  /\ lastOp = "Step"
  /\ cint.stepMode
  /\ cint.stepIndex = 6
  /\ result.Error = "division by zero"
  /\ Written(stdout) = <<2>>
  /\ cint.shouldReturn
  /\ Deref(cint, cint.returnValue).Int = 7

\* the evaluation events after the first return statement of tr
AfterReturn(tr) ==
  LET k == CHOOSE j \in DOMAIN tr :
             /\ tr[j] = "ReturnStatement"
             /\ \A h \in 1..(j - 1) : tr[h] # "ReturnStatement"
  IN SubSeq(tr, k + 1, Len(tr))

\* what f writes before it returns or runs off its end, and the value of the
\* call
writtenByF == ("value" :> <<1, 2, 3>>) @@ ("bare" :> <<1, 2, 3>>) @@
              ("off" :> <<1>>)
valueOfF == ("value" :> 9) @@ ("bare" :> 0) @@ ("off" :> 0)

\* C20: in Run of Returning(how), f writes nothing after its return in the
\* if in the while in the for and no statement, loop condition or post
\* expression of f is evaluated after it (the events after the return are
\* main's two last statements); the value of the call, which main writes and
\* returns, is 9 for `return 9;` and the integer 0 for `return;` and for
\* the body that runs off its end.
C20_ReturnEndsInvocation ==
  \A how \in returnForms :
    (source = Returning(how) /\ lastOp = "Run") =>
      (/\ fault = "none"
       /\ result.err = ""
       /\ Written(stdout) = Append(writtenByF[how], valueOfF[how])
       /\ how # "off" =>
            AfterReturn(trace) = <<"ExpressionStatement", "ReturnStatement">>
       /\ result.ret = [Type |-> "int", Int |-> valueOfF[how], Str |-> ""])

\* C20, reached: Run of the program whose f executes `return 9;` in the if
\* in the while in the for has written 1, 2, 3 and the value 9 of the call
C20_NestedReturnReached ==
  /\ source = Returning("value")
  /\ lastOp = "Run"
  /\ Written(stdout) = <<1, 2, 3, 9>>
  /\ result.ret.Int = 9

\* the loop events of tr: condition tests, starts of a body, evaluations of
\* a post-expression and executions of break, continue and return
loopEvents ==
  {"cond", "body", "post", "BreakStatement", "ContinueStatement",
   "ReturnStatement"}
IsLoopEvent(ev) == ev \in loopEvents
LoopEvents(tr) == SelectSeq(tr, IsLoopEvent)

\* in the loop events P of a call that evaluated one for loop: a post follows
\* a body or a continue and is followed by the next condition test; a body
\* is followed by a jump or by the post; a continue is followed by the post;
\* no post follows a break, a return or the last condition test
PostOrder(P) ==
  \A k \in DOMAIN P :
    /\ P[k] = "post" =>
         (/\ k > 1 /\ P[k - 1] \in {"body", "ContinueStatement"}
          /\ k < Len(P) /\ P[k + 1] = "cond")
    /\ (P[k] = "body" /\ k < Len(P)) =>
         P[k + 1] \in {"post", "ContinueStatement", "BreakStatement",
                       "ReturnStatement"}
    /\ (P[k] = "ContinueStatement") => (k < Len(P) /\ P[k + 1] = "post")
    /\ (P[k] \in {"BreakStatement", "ReturnStatement"} /\ k < Len(P)) =>
         P[k + 1] # "post"
    /\ (P[k] = "cond" /\ k < Len(P)) => P[k + 1] \in {"body", "ReturnStatement"}

\* what ForJump(jump) writes
writtenByForJump ==
  (<<>> :> <<0, 7, 1, 7, 2, 7>>) @@
  (<<"break", ";">> :> <<0, 7, 1>>) @@
  (<<"continue", ";">> :> <<0, 7, 1, 2, 7>>) @@
  (<<"return", "5", ";">> :> <<0, 7, 1>>)

\* C21: in every Run or Step of a program with one for loop, the post
\* expression is evaluated once after each iteration whose body ran to its
\* end or was cut short by continue, before the next condition test, and is
\* not evaluated after an iteration ended by break or return nor after the
\* condition tested false; Run of ForJump(jump) writes the values of i that
\* this gives.
C21_ForPost ==
  (source \in {ForJump(j) : j \in forJumps} \cup {ForSum}
     /\ lastOp \in {"Run", "Step"} /\ fault = "none") =>
    (/\ PostOrder(LoopEvents(trace))
     /\ \A j \in forJumps :
          (source = ForJump(j) /\ lastOp = "Run") =>
            Written(stdout) = writtenByForJump[j])

\* C21, reached: Run of the loop with a continue in its second iteration
\* has evaluated the post-expression three times
C21_PostAfterContinueReached ==
  /\ source = ForJump(<<"continue", ";">>)
  /\ lastOp = "Run"
  /\ Cardinality({k \in DOMAIN trace : trace[k] = "post"}) = 3
  /\ Written(stdout) = <<0, 7, 1, 2, 7>>

\* C22: a name first bound inside a nested block, an if branch, an else
\* branch, a while body or a for body cannot be resolved after that
\* statement, and a name bound in one iteration of a for loop cannot be
\* resolved in the next: Run of Leak(kind) and of LeakIteration returns the
\* error "undefined variable: y".
C22_ChildScopes ==
  (source \in {Leak(kind) : kind \in nestedKinds} \cup {LeakIteration}
     /\ lastOp = "Run") =>
    (/\ fault = "none"
     /\ result.err = "undefined variable: y")

\* the error and the value of Run of CallScope(case) and what it writes
callError ==
  ("caller" :> "undefined variable: x") @@ ("assign" :> "") @@
  ("excess" :> "") @@ ("missing" :> "undefined variable: q") @@
  ("position" :> "")
callValue ==
  ("caller" :> Nil) @@ ("assign" :> [Type |-> "int", Int |-> 6, Str |-> ""]) @@
  ("excess" :> [Type |-> "int", Int |-> 4, Str |-> ""]) @@ ("missing" :> Nil) @@
  ("position" :> [Type |-> "int", Int |-> 6, Str |-> ""])
callWritten ==
  ("caller" :> <<>>) @@ ("assign" :> <<1>>) @@ ("excess" :> <<>>) @@
  ("missing" :> <<4>>) @@ ("position" :> <<>>)

\* C23: a call evaluates its arguments in the caller's scope and binds them
\* by position in a scope whose parent is the global scope: in the callee a
\* name bound only in the caller is an undefined variable, the callee's
\* assignments to its parameter and to the caller's name leave the caller's
\* binding as it was, an argument beyond the parameters binds nothing, and
\* a parameter without an argument is an undefined variable when read.
C23_CallScope ==
  \A case \in callCases :
    (source = CallScope(case) /\ lastOp = "Run") =>
      (/\ fault = "none"
       /\ result.err = callError[case]
       /\ result.ret = callValue[case]
       /\ Written(stdout) = callWritten[case]
       /\ case = "assign" =>
            Bindings(cint)["x"] = [Type |-> "int", Int |-> 1, Str |-> ""])

\* C23, reached: Run of the call with a missing argument has written the
\* bound parameter and failed on the unbound one
C23_MissingArgumentReached ==
  /\ source = CallScope("missing")
  /\ lastOp = "Run"
  /\ Written(stdout) = <<4>>
  /\ result.err = "undefined variable: q"

\* the value of each ++ or -- on x = 4 and what x holds afterwards
bumpValue ==
  (<<"++", "x">> :> 5) @@ (<<"--", "x">> :> 3) @@ (<<"x", "++">> :> 4) @@
  (<<"x", "--">> :> 4)
bumpedName ==
  (<<"++", "x">> :> 5) @@ (<<"--", "x">> :> 3) @@ (<<"x", "++">> :> 5) @@
  (<<"x", "--">> :> 3)

\* C24: Run of Bump(expr) for a prefix or postfix ++ or -- on an integer
\* literal or a parenthesised sum returns no error and leaves x at 4; for
\* ++ or -- on the name x the postfix form yields 4, the prefix form the new
\* value, and x changes by one.
C24_IncrementOperand ==
  /\ \A expr \in bumpsOfOthers :
       (source = Bump(expr) /\ lastOp = "Run") =>
         (/\ fault = "none"
          /\ result.err = ""
          /\ result.ret = [Type |-> "int", Int |-> 4, Str |-> ""])
  /\ \A expr \in bumpsOfName :
       (source = Bump(expr) /\ lastOp = "Run") =>
         (/\ fault = "none"
          /\ result.err = ""
          /\ Written(stdout) = <<bumpValue[expr]>>
          /\ result.ret.Int = bumpedName[expr])

\* what ForEver(header) writes
writtenByForEver ==
  (<<";", ";">> :> <<1, 2, 3>>) @@
  (<<"i", "=", "0", ";", ";", "i", "++">> :> <<1, 3>>)

\* C25: New of ForEver(header) for the headers `;;` and `i = 0; ; i++`
\* returns no diagnostic and the second statement of main is a for statement
\* without a condition; Run iterates it until the break and returns no
\* error.
C25_OptionalHeader ==
  \A header \in openHeaders :
    (source = ForEver(header) /\ lastOp # "none") =>
      (/\ err = Nil
       /\ cint # Nil
       /\ Len(MainBody) = 3
       /\ MainBody[2].kind = "ForStatement"
       /\ MainBody[2].Condition = Nil
       /\ lastOp = "Run" =>
            (/\ fault = "none"
             /\ result.err = ""
             /\ Written(stdout) = writtenByForEver[header]))

\* the errors of the evaluator for an operator or an expression it does not
\* implement
internalErrors ==
  {"unknown expression type"}
    \cup {"unknown prefix operator: " \o op : op \in DOMAIN symbols}
    \cup {"unknown postfix operator: " \o op : op \in DOMAIN symbols}
    \cup {"unknown infix operator: " \o op : op \in DOMAIN symbols}
    \cup {"unknown assignment operator: " \o op : op \in DOMAIN symbols}

\* C26: for a program New accepted, every expression statement of main
\* carries an expression, and no Run or Step ends with an unknown-operator
\* or unknown-expression-type error.
C26_NoInternalError ==
  (lastOp # "none" /\ err = Nil /\ cint # Nil) =>
    (/\ (~NoMainFunction /\ cint.functions["main"].Body.kind # "nilptr") =>
          \A k \in DOMAIN MainBody :
            MainBody[k].kind = "ExpressionStatement" =>
              MainBody[k].Expression # Nil
     /\ (lastOp = "Run" /\ fault = "none") => result.err \notin internalErrors
     /\ (lastOp = "Step" /\ fault = "none") =>
          result.Error \notin internalErrors)

\* C27: a break or continue executed in the body of a callee, outside any
\* loop of the callee, leaves the should-break and should-continue flags of
\* the caller as they were: a Step whose statement is the call leaves both
\* flags unchanged, and Run of CalleeJump(jump) ends and skips no iteration
\* and no statement of main: it writes 0, 1 and 5 and returns 0.
C27_JumpStaysInCallee ==
  [][/\ (/\ source \in {CalleeJump(jump) : jump \in jumps}
         /\ lastOp' = "Step"
         /\ fault' = "none"
         /\ result'.Statement # Nil
         /\ CallsFunction(result'.Statement)) =>
          (/\ cint'.shouldBreak = cint.shouldBreak
           /\ cint'.shouldContinue = cint.shouldContinue)
     /\ (/\ source \in {CalleeJump(jump) : jump \in jumps}
         /\ lastOp' = "Run") =>
          (/\ fault' = "none"
           /\ result'.err = ""
           /\ Written(stdout') = <<0, 1, 5>>
           /\ result'.ret = [Type |-> "int", Int |-> 0, Str |-> ""])]_vars

\* C28: on a program whose main, or a function main calls, is declared by a
\* prototype only, New returns no diagnostic, no call ends in a fault, and
\* a Step in step mode on the prototype-only main reports Done without
\* executing anything.
C28_PrototypeOnly ==
  (source \in {PrototypeMain, PrototypeCall}) =>
    (/\ err = Nil
     /\ fault = "none"
     /\ (source = PrototypeMain /\ lastOp = "Step" /\ cint.stepMode) =>
          (/\ result.Done
           /\ result.Statement = Nil
           /\ result.Error = ""
           /\ trace = <<>>))

\* C29: in every reachable state the global scope of the interpreter holds
\* no binding; a name declared only at top level is an undefined variable
\* when a function reads it: Run of GlobalRead fails in f, and each Step of
\* GlobalRead that reads g (the call of f and main's return) fails.
C29_GlobalsEmpty ==
  (cint # Nil) =>
    (/\ DOMAIN cint.envs[cint.globals].store = {}
     /\ (source = GlobalRead /\ lastOp = "Run") =>
          (/\ fault = "none"
           /\ result.err = "undefined variable: g"
           /\ Written(stdout) = <<1, 2>>)
     /\ (source = GlobalRead /\ lastOp = "Step" /\ cint.stepMode
           /\ fault = "none" /\ result.Statement # Nil
           /\ result.Statement \in {MainBody[3], MainBody[4]}) =>
          result.Error = "undefined variable: g")

\* C29, reached: all of GlobalRead has been stepped, its last statement
\* `return g` has failed, and the global scope is empty
C29_GlobalReadReached ==
  /\ source = GlobalRead
  /\ lastOp = "Step"
  /\ cint.stepMode
  /\ cint.stepIndex = 4
  /\ result.Error = "undefined variable: g"
  /\ DOMAIN Bindings(cint) = {"x"}
  /\ DOMAIN cint.envs[cint.globals].store = {}

\* the parser states a parse passes through in 4^k transfers of control
\* from p, p excluded, or in as many as it takes until ParseProgram has
\* returned
RECURSIVE ParseRun(_, _, _)
ParseRunFrom(l, run, k) ==
  CASE run[Len(run)].ctl.op = "exit" -> run
    [] OTHER -> run \o ParseRun(l, run[Len(run)], k)

ParseRun(l, p, k) ==
  CASE k = 0 -> <<ParseTransfer(l, p)>>
    [] OTHER ->
         ParseRunFrom(
           l, ParseRunFrom(
                l, ParseRunFrom(l, ParseRun(l, p, k - 1), k - 1), k - 1),
           k - 1)

\* the parser states of ParseProgram on the tokens l, from its entry on
ParseStates(l) ==
  ParseRunFrom(l, <<ParseProgramLoop(l, NewParser, <<>>)>>, MaxExec)

\* the parse functions with a loop around a call: the program loop, the
\* block loop, the infix loop and the argument-list loop
loopFunctions ==
  {"ParseProgram", "parseBlockStatement", "parseExpression",
   "parseExpressionList"}

\* in the parser state p a callee returns into a loop
ReturnsToLoop(p) ==
  /\ p.ctl.op = "return"
  /\ Len(p.frames) > 0
  /\ p.frames[Len(p.frames)].fn \in loopFunctions

\* the i-th and the j-th state of run return into the same invocation of
\* the same loop
SameLoop(run, i, j) ==
  /\ ReturnsToLoop(run[i])
  /\ ReturnsToLoop(run[j])
  /\ Len(run[i].frames) = Len(run[j].frames)
  /\ run[i].frames[Len(run[i].frames)].fn
       = run[j].frames[Len(run[j].frames)].fn
  /\ \A k \in i..j : Len(run[k].frames) >= Len(run[i].frames)

\* the parse of the tokens l has ended with the end of input current and no
\* parse function active, no transfer has moved the parser backwards, and
\* between two returns into the same loop the parser has moved forwards
ParseEnds(l, run) ==
  /\ run[Len(run)].ctl.op = "exit"
  /\ run[Len(run)].frames = <<>>
  /\ l[run[Len(run)].pos].Type = "EOF"
  /\ run[Len(run)] = ParseProgram(l)
  /\ \A i \in 1..(Len(run) - 1) : run[i].pos <= run[i + 1].pos
  /\ \A i \in 1..Len(run) : \A j \in (i + 1)..Len(run) :
       SameLoop(run, i, j) => run[i].pos < run[j].pos

\* C30: ParseProgram returns on every token sequence, well-formed or not:
\* when New has been called on any of them, the parse has ended with the end
\* of input as the current token, every two returns into the same program
\* loop, block loop, infix loop or argument-list loop are separated by at
\* least one consumed token, and New has returned, with either an instance
\* or the diagnostics.
C30_ParsingTerminates ==
  (lastOp = "New") =>
    (/\ fault = "none"
     /\ (cint = Nil) # (err = Nil)
     /\ ParseEnds(NewLexer(source), ParseStates(NewLexer(source))))

\* C30, reached: the input ended inside the argument list of a call in a
\* return statement in a block, and New has returned the diagnostics
C30_TruncatedReached ==
  /\ source = SubSeq(Declared, 1, 26)
  /\ lastOp = "New"
  /\ cint = Nil
  /\ err # Nil
  /\ Len(ParseStates(NewLexer(source))) > Len(source)

====
